---- MODULE Spec2Model ----
(***************************************************************************)
(* A model of dbdicom's DataBaseDicom (src/src/dbdicom/dbd.py): the        *)
(* register of instance files of one DICOM folder, with staged creation    *)
(* and removal of instances, close() (commit) and restore() (rollback),    *)
(* copy / move / delete of patients, studies and series, and write_volume. *)
(*                                                                         *)
(* The register is a pandas DataFrame indexed by relative file path: it is *)
(* modelled as a sequence of rows in DataFrame order.  The folder is a     *)
(* function from relative path to the dataset stored in that file.  The    *)
(* snapshot is the pickled register beside the folder.                     *)
(*                                                                         *)
(* dbdataset.new_uid() returns an identifier never returned before.  The   *)
(* model returns the least identifier that occurs nowhere in the state     *)
(* (register, folder, snapshot, saved point, identifiers handed out        *)
(* earlier in the same call): states that differ only by a renaming of     *)
(* identifiers are the same state.                                         *)
(***************************************************************************)
EXTENDS Integers, Sequences, FiniteSets, TLC

VARIABLES
    reg,        \* self.register: the rows, in DataFrame order
    disk,       \* the instance files of the folder: relative path -> dataset
    snap,       \* the pickled register (self._register_file())
    pkl,        \* the register file: "saved", "corrupt" or "none" (no file)
    last,       \* the last call: its name, whether it returned, what it did
    savedReg,   \* history: the register at the last open / close / restore
    savedDisk,  \* history: the folder at the last open / close / restore
    sess,       \* history: what the session did since the last saved point
    calls,      \* the number of copy, move, delete and write_volume calls made
    given,      \* the coordinates of the slices volume() is given, in file order
    built,      \* what volume() made of them, and write_volume of that
    peer,       \* self.register of a second object opened on the same folder
    commits,    \* history: what each of the two objects loaded and committed
    dest        \* a second folder: its instance files and its register file

vars ==
    <<reg, disk, snap, pkl, last, savedReg, savedDisk, sess, calls, given, built,
      peer, commits, dest>>

---------------------------------------------------------------------------
(* Bounds of the model *)

\* No call is started that would leave more than MaxFiles files in the folder.
MaxFiles == 4

\* The runs of SpecCopy keep the folder within ExampleFiles files.
ExampleFiles == 15

\* A run makes up to MaxCalls calls of copy, move, delete and write_volume,
\* and any number of open, close and restore.
MaxCalls == 2

\* write_volume writes volumes of 1..MaxSlices slices per 3-D volume.
MaxSlices == 2

\* write_volume writes volumes of ndim > 3 of 1..MaxFrames 3-D volumes.
MaxFrames == 2

\* The most files the device still takes when a call starts, in the runs
\* with a device that fills up.
MaxRoom == 2

\* The most slices volume() is given.
MaxInput == 4

\* The largest SliceLocation of a slice; the locations are 0..MaxLocation.
MaxLocation == 2

\* The InstanceNumber / SeriesNumber the register holds for a dataset that
\* carries none: _max_instance_number and _max_series_number skip it.
MissingNumber == -1

Root == "R"

\* Entity addresses: [root], [root, patient], [root, patient, study],
\* [root, patient, study, series].  The calls of the model are given the
\* root, two patients, two studies of the first patient, two series of its
\* first study and one series of the second patient.
Addr1 == {<<Root>>}
Addr2 == {<<Root, "P1">>, <<Root, "P2">>}
Addr3 == {<<Root, "P1", "S1">>, <<Root, "P1", "S2">>}
Addr4 == {<<Root, "P1", "S1", "E1">>, <<Root, "P1", "S1", "E2">>,
          <<Root, "P2", "S1", "E1">>}
Addrs == Addr1 \cup Addr2 \cup Addr3 \cup Addr4

---------------------------------------------------------------------------
(* Datasets and rows *)

\* The attributes of a dataset the register keeps (register.COLUMNS).
Dataset(pid, pname, stuid, stdesc, seuid, sedesc, senum, inum, sop) ==
    [PatientID |-> pid, PatientName |-> pname,
     StudyInstanceUID |-> stuid, StudyDescription |-> stdesc,
     SeriesInstanceUID |-> seuid, SeriesDescription |-> sedesc,
     SeriesNumber |-> senum, InstanceNumber |-> inum,
     SOPInstanceUID |-> sop]

\* dbdataset.get_values(ds, self.register.columns) with the index and the
\* two flags: one row of the register.
Row(path, ds, created, removed) ==
    [path |-> path, created |-> created, removed |-> removed] @@ ds

\* The dataset a row was read from.
DatasetOf(row) ==
    [k \in DOMAIN row \ {"path", "created", "removed"} |-> row[k]]

\* register.COLUMNS: the attributes the register keeps of every instance.
COLUMNS ==
    {"PatientID", "PatientName", "StudyInstanceUID", "StudyDescription",
     "SeriesInstanceUID", "SeriesDescription", "SeriesNumber",
     "InstanceNumber", "SOPInstanceUID"}

\* self.register.columns without the flags: the columns of the rows, and
\* COLUMNS when the register has no row.
Columns(r) ==
    IF r = <<>> THEN COLUMNS
    ELSE DOMAIN r[1] \ {"path", "created", "removed"}

\* dbdataset.get_values(ds, columns)
GetValues(ds, columns) == [k \in columns |-> ds[k]]

RECURSIVE SeqToSet(_)
SeqToSet(s) == IF s = <<>> THEN {} ELSE {Head(s)} \cup SeqToSet(Tail(s))

Paths(r) == {r[i].path : i \in DOMAIN r}

RowAt(r, p) == r[CHOOSE i \in DOMAIN r : r[i].path = p]

Max(S) == CHOOSE x \in S : \A y \in S : y <= x

---------------------------------------------------------------------------
(* dbdicom.register: queries on the register by entity address *)

\* A row lies under an address when its labels match the address prefix.
Matches(row, entity) ==
    /\ (Len(entity) >= 2 => row.PatientName = entity[2])
    /\ (Len(entity) >= 3 => row.StudyDescription = entity[3])
    /\ (Len(entity) >= 4 => row.SeriesDescription = entity[4])

\* register.index(df, entity): the keys of the rows under the address that
\* are not removed, in register order.
Index(r, entity) ==
    LET Under(row) == Matches(row, entity) /\ ~row.removed
        rows == SelectSeq(r, Under)
    IN  [i \in DOMAIN rows |-> rows[i].path]

\* register.files(df, entity): the files of those rows, in the same order.
Files(r, entity) == Index(r, entity)

\* The distinct values of a sequence of labels, by first appearance.
RECURSIVE Distinct(_, _)
Distinct(labels, seen) ==
    IF labels = <<>> THEN <<>>
    ELSE IF Head(labels) \in seen THEN Distinct(Tail(labels), seen)
         ELSE <<Head(labels)>>
              \o Distinct(Tail(labels), seen \cup {Head(labels)})

\* register.studies(df, patient): the addresses of the studies of a patient.
Studies(r, patient) ==
    LET Under(row) == Matches(row, patient) /\ ~row.removed
        rows == SelectSeq(r, Under)
        names == Distinct([i \in DOMAIN rows |-> rows[i].StudyDescription], {})
    IN  [i \in DOMAIN names |-> Append(patient, names[i])]

\* register.series(df, study): the addresses of the series of a study.
Series(r, study) ==
    LET Under(row) == Matches(row, study) /\ ~row.removed
        rows == SelectSeq(r, Under)
        names == Distinct([i \in DOMAIN rows |-> rows[i].SeriesDescription], {})
    IN  [i \in DOMAIN names |-> Append(study, names[i])]

\* register.append(df, parent, child_name): the address of the child.
AppendChild(r, parent, child_name) == Append(parent, child_name)

\* register.uid(df, study): the StudyInstanceUID of the study at the
\* address, as a set of one; the empty set when there is no such study
\* (the call raises).
StudyUid(r, study) ==
    LET Under(row) == Matches(row, study) /\ ~row.removed
        rows == SelectSeq(r, Under)
    IN  IF rows = <<>> THEN {} ELSE {rows[1].StudyInstanceUID}

---------------------------------------------------------------------------
(* DataBaseDicom: the private helpers.  A call works on m = [reg, disk,    *)
(* alloc, ok]: the register and the folder as the call has changed them so *)
(* far, the identifiers new_uid() has handed out in this call, and whether *)
(* the call is still running normally (FALSE once an exception is raised). *)

Mem(r, d) == [reg |-> r, disk |-> d, alloc |-> {}, ok |-> TRUE]

Raise(m) == [m EXCEPT !.ok = FALSE]

\* The call runs on a device that holds no more than capacity files.
MemOn(r, d, capacity) ==
    [reg |-> r, disk |-> d, alloc |-> {}, ok |-> TRUE, capacity |-> capacity]

\* dbdataset.write(ds, file) raises when the device takes no more files.
\* A call that was not given a capacity never meets the limit.
Full(m) ==
    "capacity" \in DOMAIN m /\ Cardinality(DOMAIN m.disk) >= m.capacity

IdsOfDataset(ds) ==
    {ds.PatientID, ds.StudyInstanceUID, ds.SeriesInstanceUID, ds.SOPInstanceUID}

IdsOfRows(r) == UNION {{r[i].path} \cup IdsOfDataset(r[i]) : i \in DOMAIN r}

IdsOfDisk(d) == DOMAIN d \cup UNION {IdsOfDataset(d[p]) : p \in DOMAIN d}

UsedIds(m) ==
    IdsOfRows(m.reg) \cup IdsOfDisk(m.disk) \cup m.alloc
    \cup IdsOfRows(snap) \cup IdsOfRows(savedReg) \cup IdsOfDisk(savedDisk)

\* The least identifier from k on that is not in used.
RECURSIVE LeastFree(_, _)
LeastFree(used, k) == IF k \notin used THEN k ELSE LeastFree(used, k + 1)

\* dbdataset.new_uid()
NewUid(m) == LeastFree(UsedIds(m), 1)

Alloc(m, id) == [m EXCEPT !.alloc = @ \cup {id}]

\* dbdataset.read_dataset(f) raises when the file is not there.
Readable(m, files) == files # <<>> /\ files[1] \in DOMAIN m.disk

\* A _max_series_number that counts the rows staged for removal as well.
MaxSeriesNumber_CountsRemoved(r, study_uid) ==
    LET n == {r[i].SeriesNumber : i \in
                {j \in DOMAIN r : r[j].StudyInstanceUID = study_uid}}
             \ {MissingNumber}
    IN  IF n = {} THEN 0 ELSE Max(n)

\* _max_series_number(study_uid)
MaxSeriesNumber(r, study_uid) ==
    LET n == {r[i].SeriesNumber : i \in
                {j \in DOMAIN r : r[j].StudyInstanceUID = study_uid
                                  /\ ~r[j].removed}}
             \ {MissingNumber}
    IN  IF n = {} THEN 0 ELSE Max(n)

\* A _max_instance_number that counts the rows staged for removal as well.
MaxInstanceNumber_CountsRemoved(r, series_uid) ==
    LET n == {r[i].InstanceNumber : i \in
                {j \in DOMAIN r : r[j].SeriesInstanceUID = series_uid}}
             \ {MissingNumber}
    IN  IF n = {} THEN 0 ELSE Max(n)

\* A _max_instance_number that finds no instance in any series.
MaxInstanceNumber_None(r, series_uid) == 0

\* _max_instance_number(series_uid)
MaxInstanceNumber(r, series_uid) ==
    LET n == {r[i].InstanceNumber : i \in
                {j \in DOMAIN r : r[j].SeriesInstanceUID = series_uid
                                  /\ ~r[j].removed}}
             \ {MissingNumber}
    IN  IF n = {} THEN 0 ELSE Max(n)

\* _patient_attributes(patient): [m, attr]
PatientAttributes(m, patient) ==
    LET files == Files(m.reg, patient)
    IN  IF Readable(m, files)
        THEN [m |-> m,
              attr |-> [PatientID |-> m.disk[files[1]].PatientID,
                        PatientName |-> m.disk[files[1]].PatientName]]
        ELSE LET patient_id == NewUid(m)
             IN  [m |-> Alloc(m, patient_id),
                  attr |-> [PatientID |-> patient_id,
                            PatientName |-> patient[Len(patient)]]]

\* A _study_attributes that generates the values of the study whether the
\* study has files or not.
StudyAttributesOf_Generates(p, study) ==
    [m |-> Alloc(p.m, NewUid(p.m)),
     attr |-> [StudyInstanceUID |-> NewUid(p.m),
               StudyDescription |-> study[Len(study)]]
              @@ p.attr]

\* _study_attributes(study) from its first line on: p is what
\* _patient_attributes(study[:2]) returned.
StudyAttributesOf(p, study) ==
    LET files == Files(p.m.reg, study)
    IN  IF Readable(p.m, files)
        THEN [m |-> p.m,
              attr |-> [StudyInstanceUID |-> p.m.disk[files[1]].StudyInstanceUID,
                        StudyDescription |-> p.m.disk[files[1]].StudyDescription]
                       @@ p.attr]
        ELSE LET study_id == NewUid(p.m)
             IN  [m |-> Alloc(p.m, study_id),
                  attr |-> [StudyInstanceUID |-> study_id,
                            StudyDescription |-> study[Len(study)]]
                           @@ p.attr]

\* _study_attributes(study): [m, attr]
StudyAttributes(m, study) ==
    StudyAttributesOf(PatientAttributes(m, SubSeq(study, 1, 2)), study)

\* A _series_attributes that generates the values of the series whether
\* the series has files or not.
SeriesAttributesOf_Generates(s, series) ==
    [m |-> Alloc(s.m, NewUid(s.m)),
     attr |-> [SeriesInstanceUID |-> NewUid(s.m),
               SeriesDescription |-> series[Len(series)],
               SeriesNumber |-> 1]
              @@ s.attr]

\* _series_attributes(series) from its first line on: s is what
\* _study_attributes(series[:3]) returned.
SeriesAttributesOf(s, series) ==
    LET files == Files(s.m.reg, series)
    IN  IF Readable(s.m, files)
        THEN [m |-> s.m,
              attr |-> [SeriesInstanceUID |-> s.m.disk[files[1]].SeriesInstanceUID,
                        SeriesDescription |-> s.m.disk[files[1]].SeriesDescription,
                        SeriesNumber |-> s.m.disk[files[1]].SeriesNumber]
                       @@ s.attr]
        ELSE LET study_uid == StudyUid(s.m.reg, SubSeq(series, 1, 3))
                 series_number ==
                     IF study_uid = {} THEN 1
                     ELSE 1 + MaxSeriesNumber(s.m.reg,
                                              CHOOSE u \in study_uid : TRUE)
                 series_id == NewUid(s.m)
             IN  [m |-> Alloc(s.m, series_id),
                  attr |-> [SeriesInstanceUID |-> series_id,
                            SeriesDescription |-> series[Len(series)],
                            SeriesNumber |-> series_number]
                           @@ s.attr]

\* _series_attributes(series): [m, attr]
SeriesAttributes(m, series) ==
    SeriesAttributesOf(StudyAttributes(m, SubSeq(series, 1, 3)), series)

\* A _write_dataset that leaves the SOPInstanceUID of the dataset as it is.
WriteDataset_KeepsSop(m, ds, attr, instance_nr, new) ==
    LET set == [InstanceNumber |-> instance_nr] @@ attr @@ ds
        rel_path == NewUid(m)
    IN  [m |-> [Alloc(m, rel_path) EXCEPT !.disk = (rel_path :> set) @@ m.disk],
         new |-> Append(new, [path |-> rel_path, ds |-> set])]

\* _write_dataset(ds, attr, instance_nr, register): [m, new], new the
\* dictionary of new instances in insertion order.  When the write raises,
\* no file is written and the dictionary is as it was.
WriteDataset(m, ds, attr, instance_nr, new) ==
    LET sop == NewUid(m)
        m1 == Alloc(m, sop)
        set == [SOPInstanceUID |-> sop, InstanceNumber |-> instance_nr]
               @@ attr @@ ds
        rel_path == NewUid(m1)
        m2 == Alloc(m1, rel_path)
    IN  IF Full(m) THEN [m |-> Raise(m2), new |-> new]
        ELSE [m |-> [m2 EXCEPT !.disk = (rel_path :> set) @@ m2.disk],
              new |-> Append(new, [path |-> rel_path,
                                   ds |-> GetValues(set, Columns(m.reg))])]

\* _update_register(new_instances)
UpdateRegister(m, new) ==
    [m EXCEPT !.reg =
        m.reg \o [j \in DOMAIN new |-> Row(new[j].path, new[j].ds, TRUE, FALSE)]]

\* The folder that the files given to _files_to_series lie in: the folder
\* of the object, or, for the object that _copy_series opens on a second
\* folder, the folder of the object that was asked to copy.
Source(m) == IF "source" \in DOMAIN m THEN m.source ELSE m.disk

\* The loop of _files_to_series: file i (from 1) becomes instance n + i.
\* Reading a file that is not there, or a write that raises, ends the loop.
RECURSIVE CopyFiles(_, _, _, _, _, _)
CopyFiles(m, files, attr, n, i, new) ==
    IF i > Len(files) \/ ~m.ok THEN [m |-> m, new |-> new]
    ELSE IF files[i] \notin DOMAIN Source(m) THEN [m |-> Raise(m), new |-> new]
    ELSE LET w == WriteDataset(m, Source(m)[files[i]], attr, n + i, new)
         IN  CopyFiles(w.m, files, attr, n, i + 1, w.new)

\* The end of _files_to_series and of the 3-D branch of write_volume:
\* _update_register, which an exception in the loop never reaches.
Registered(w) == IF w.m.ok THEN UpdateRegister(w.m, w.new) ELSE w.m

\* _files_to_series(files, to_series) from its second line on: a is what
\* _attributes(to_series) returned.
FilesToSeriesWith(a, files) ==
    Registered(CopyFiles(a.m, files, a.attr,
                         MaxInstanceNumber(a.m.reg, a.attr.SeriesInstanceUID),
                         1, <<>>))

\* _files_to_series(files, to_series)
FilesToSeries(m, files, to_series) ==
    FilesToSeriesWith(SeriesAttributes(m, to_series), files)

\* dbdataset.new_dataset('MRImage'): a template; write_volume sets every
\* attribute the register keeps.
NewDataset == Dataset(0, "", 0, "", 0, "", MissingNumber, MissingNumber, 0)

\* The loops of write_volume numbering every slice n + 1.
RECURSIVE WriteSlices_Repeats(_, _, _, _, _, _, _)
WriteSlices_Repeats(m, ds, attr, n, count, i, new) ==
    IF i > count THEN [m |-> m, new |-> new]
    ELSE LET w == WriteDataset(m, ds, attr, n + 1, new)
         IN  WriteSlices_Repeats(w.m, ds, attr, n, count, i + 1, w.new)

\* The loops of write_volume: count slices, slice i (from 1) written as
\* instance n + i.  A write that raises ends them.
RECURSIVE WriteSlices(_, _, _, _, _, _, _)
WriteSlices(m, ds, attr, n, count, i, new) ==
    IF i > count \/ ~m.ok THEN [m |-> m, new |-> new]
    ELSE LET w == WriteDataset(m, ds, attr, n + i, new)
         IN  WriteSlices(w.m, ds, attr, n, count, i + 1, w.new)

\* write_volume(vol, series, ref) from "attr = self._attributes(series)" on:
\* ds is the template, a what _attributes(series) returned.  vol = [ndim,
\* frames, slices]: a volume of ndim > 3 separates into frames 3-D volumes
\* of slices slices each, and that branch returns before _update_register.
WriteVolumeWith(a, ds, vol) ==
    IF vol.ndim = 3
    THEN Registered(WriteSlices(a.m, ds, a.attr,
                        MaxInstanceNumber(a.m.reg, a.attr.SeriesInstanceUID),
                        vol.slices, 1, <<>>))
    ELSE WriteSlices(a.m, ds, a.attr,
                     MaxInstanceNumber(a.m.reg, a.attr.SeriesInstanceUID),
                     vol.frames * vol.slices, 1, <<>>).m

\* write_volume(vol, series, ref): the template is a new dataset, or the
\* first file of the reference series (an exception when it has none).
WriteVolume(m, vol, series, ref) ==
    IF ref = <<>>
    THEN WriteVolumeWith(SeriesAttributes(m, series), NewDataset, vol)
    ELSE IF ~Readable(m, Files(m.reg, ref)) THEN Raise(m)
    ELSE WriteVolumeWith(SeriesAttributes(m, series),
                         m.disk[Files(m.reg, ref)[1]], vol)

\* A close() that leaves the created flags as they are.
CloseRegister_KeepsCreated(r) ==
    LET Kept(row) == ~row.removed
    IN  SelectSeq(r, Kept)

\* A close() that removes the files of the removed rows that were on disk
\* before the session only.
CloseFolder_SparesCreated(r, d) ==
    LET removed == {r[i].path : i \in {j \in DOMAIN r :
                                          r[j].removed /\ ~r[j].created}}
    IN  [p \in DOMAIN d \ removed |-> d[p]]

\* A restore() that drops the created rows that are not removed only.
RestoreRegister_KeepsBoth(r) ==
    LET Kept(row) == ~(row.created /\ ~row.removed)
        kept == SelectSeq(r, Kept)
    IN  [i \in DOMAIN kept |->
            IF kept[i].created THEN kept[i]
            ELSE [kept[i] EXCEPT !.removed = FALSE]]

\* A restore() that deletes no file.
RestoreFolder_KeepsFiles(r, d) == d

\* A restore() that leaves the removed flags as they are.
RestoreRegister_KeepsRemoved(r) ==
    LET Kept(row) == ~row.created
    IN  SelectSeq(r, Kept)

\* close(): the register it leaves.
CloseRegister(r) ==
    LET Kept(row) == ~row.removed
        kept == SelectSeq(r, Kept)
    IN  [i \in DOMAIN kept |-> [kept[i] EXCEPT !.created = FALSE]]

\* close(): the folder it leaves.
CloseFolder(r, d) ==
    LET removed == {r[i].path : i \in {j \in DOMAIN r : r[j].removed}}
    IN  [p \in DOMAIN d \ removed |-> d[p]]

\* restore(): the register it leaves.
RestoreRegister(r) ==
    LET Kept(row) == ~row.created
        kept == SelectSeq(r, Kept)
    IN  [i \in DOMAIN kept |-> [kept[i] EXCEPT !.removed = FALSE]]

\* restore(): the folder it leaves.
RestoreFolder(r, d) ==
    LET created == {r[i].path : i \in {j \in DOMAIN r : r[j].created}}
    IN  [p \in DOMAIN d \ created |-> d[p]]

---------------------------------------------------------------------------
(* read(): the register rebuilt from the files of the folder *)

\* NumberOfFrames of a file that holds a single frame: the attribute is
\* missing and the register has a null.
NoFrames == 0

\* The attributes of an instance file that the rebuild reads beside
\* COLUMNS.
Image(ds, number_of_frames, sop_class) ==
    ds @@ [NumberOfFrames |-> number_of_frames, SOPClassUID |-> sop_class]

\* filetools.all_files(path): the files of the folder, in path order.
RECURSIVE AllFiles(_)
AllFiles(paths) ==
    IF paths = {} THEN <<>>
    ELSE <<CHOOSE p \in paths : \A q \in paths : p <= q>>
         \o AllFiles(paths \ {CHOOSE p \in paths : \A q \in paths : p <= q})

\* dbdataset.read_dataframe(files, columns) followed by the two flags set
\* to False.
ReadDataframe(d, columns) ==
    [i \in DOMAIN AllFiles(DOMAIN d) |->
        Row(AllFiles(DOMAIN d)[i],
            GetValues(d[AllFiles(DOMAIN d)[i]], columns), FALSE, FALSE)]

\* self.register.drop(column, axis=1, inplace=True)
DropColumn(r, column) ==
    [i \in DOMAIN r |-> [k \in DOMAIN r[i] \ {column} |-> r[i][k]]]

\* _multiframe_to_singleframe().  With a multiframe file in the register
\* the call of tqdm reads the loop variable relpath before the loop has
\* assigned it, which raises; the body of the loop is never run.
MultiframeToSingleframe(m) ==
    IF \E i \in DOMAIN m.reg : m.reg[i].NumberOfFrames # NoFrames
    THEN Raise(m)
    ELSE [m EXCEPT !.reg = DropColumn(m.reg, "NumberOfFrames")]

RECURSIVE Concat(_)
Concat(ss) == IF ss = <<>> THEN <<>> ELSE Head(ss) \o Concat(Tail(ss))

\* register.patients(df): the addresses of the patients of the folder.
Patients(r) ==
    LET Kept(row) == ~row.removed
        rows == SelectSeq(r, Kept)
        names == Distinct([i \in DOMAIN rows |-> rows[i].PatientName], {})
    IN  [i \in DOMAIN names |-> <<Root, names[i]>>]

\* self.studies(): the studies of every patient.
AllStudies(r) ==
    Concat([i \in DOMAIN Patients(r) |-> Studies(r, Patients(r)[i])])

\* self.series(): the series of every study.
AllSeries(r) ==
    Concat([i \in DOMAIN AllStudies(r) |-> Series(r, AllStudies(r)[i])])

\* os.remove(f) for the files of one class, once they are copied; the call
\* self.register.drop(relpaths) before it returns a new DataFrame that is
\* not kept, so the register is as _files_to_series left it.
DeleteOriginals(m, relpaths) ==
    IF ~m.ok THEN m
    ELSE [m EXCEPT !.disk =
             [p \in DOMAIN m.disk \ SeqToSet(relpaths) |-> m.disk[p]]]

\* The loop of _split_series over sop_classes[1:]: the rows of class
\* sop_classes[i + 1] go to the series named desc + ' [i]', desc being
\* series[0], the first element of the address.
RECURSIVE SplitClasses(_, _, _, _, _)
SplitClasses(m, series, df_series, sop_classes, i) ==
    IF i > Len(sop_classes) - 1 \/ ~m.ok THEN m
    ELSE LET InClass(row) == row.SOPClassUID = sop_classes[i + 1]
             df_sop_class == SelectSeq(df_series, InClass)
             relpaths == [j \in DOMAIN df_sop_class |-> df_sop_class[j].path]
             desc == series[1]
             sop_class_series ==
                 Append(SubSeq(series, 1, Len(series) - 1),
                        desc \o " [" \o ToString(i) \o "]")
         IN  SplitClasses(
                 DeleteOriginals(FilesToSeries(m, relpaths, sop_class_series),
                                 relpaths),
                 series, df_series, sop_classes, i + 1)

\* The classes of the rows of a series, by first appearance.
SopClasses(df_series) ==
    Distinct([j \in DOMAIN df_series |-> df_series[j].SOPClassUID], {})

\* The loop of _split_series over the series found before the loop started.
RECURSIVE SplitSeriesLoop(_, _, _)
SplitSeriesLoop(m, all_series, k) ==
    IF k > Len(all_series) \/ ~m.ok THEN m
    ELSE LET series_index == Index(m.reg, all_series[k])
             df_series == [j \in DOMAIN series_index |->
                              RowAt(m.reg, series_index[j])]
         IN  SplitSeriesLoop(
                 IF Len(SopClasses(df_series)) > 1
                 THEN SplitClasses(m, all_series[k], df_series,
                                   SopClasses(df_series), 1)
                 ELSE m,
                 all_series, k + 1)

\* The last line of _split_series.
DropSopClass(m) ==
    IF ~m.ok THEN m ELSE [m EXCEPT !.reg = DropColumn(m.reg, "SOPClassUID")]

\* _split_series()
SplitSeries(m) ==
    IF ~m.ok THEN m
    ELSE DropSopClass(SplitSeriesLoop(m, AllSeries(m.reg), 1))

\* read() on the folder d
ReadFolder(d) ==
    SplitSeries(MultiframeToSingleframe(
        Mem(ReadDataframe(d, COLUMNS \cup {"NumberOfFrames", "SOPClassUID"}),
            d)))

---------------------------------------------------------------------------
(* copy(), delete() and move() *)

\* A call that may copy to a second folder works on m with one more field,
\* far = [disk, snap, pkl]: the instance files of the second folder, its
\* pickled register, and whether it has a register file.
MemAcross(r, d, far) ==
    [reg |-> r, disk |-> d, alloc |-> {}, ok |-> TRUE, far |-> far]

\* DataBaseDicom(path) on the second folder: the register file is loaded
\* when it is there, and the folder is read when it is not.
Loaded(far) ==
    IF far.pkl = "saved" THEN Mem(far.snap, far.disk) ELSE ReadFolder(far.disk)

\* mgr = DataBaseDicom(to_series[0]), l being what the constructor left:
\* the object on the second folder.  The files it is given lie in the
\* folder of m, and new_uid() returns no identifier that m holds.
ManagerFrom(m, l) ==
    [reg |-> l.reg, disk |-> l.disk, ok |-> l.ok,
     alloc |-> l.alloc \cup m.alloc \cup IdsOfRows(m.reg) \cup IdsOfDisk(m.disk),
     source |-> m.disk]

\* mgr = DataBaseDicom(to_series[0])
Manager(m) == ManagerFrom(m, Loaded(m.far))

\* A copy to the second folder that does not close the object it opened.
ClosedFar_NotClosed(m, w) ==
    [m EXCEPT !.ok = w.ok, !.far = [@ EXCEPT !.disk = w.disk]]

\* mgr.close() at the end of the copy to the second folder, w being what
\* mgr._files_to_series left of the object.  An exception of the
\* constructor or of _files_to_series leaves before it.
ClosedFar(m, w) ==
    IF ~w.ok THEN [m EXCEPT !.ok = FALSE, !.far = [@ EXCEPT !.disk = w.disk]]
    ELSE [m EXCEPT !.far = [disk |-> CloseFolder(w.reg, w.disk),
                            snap |-> CloseRegister(w.reg),
                            pkl |-> "saved"]]

\* _copy_series(from_series, to_series): within the folder, or to the
\* second folder when to_series[0] is not from_series[0].
CopySeries(m, from_series, to_series) ==
    IF to_series[1] = from_series[1]
    THEN FilesToSeries(m, Files(m.reg, from_series), to_series)
    ELSE ClosedFar(m, FilesToSeries(Manager(m), Files(m.reg, from_series),
                                    to_series))

\* mgr = DataBaseDicom(to_study[0]) in the loop of _copy_study, l being what
\* the constructor left: the second folder as the constructor has left it,
\* and the exception if it raised.
VisitedFrom(m, l) == [m EXCEPT !.ok = l.ok, !.far = [@ EXCEPT !.disk = l.disk]]

\* The lines of the loop of _copy_study before the call of _copy_series.
Visited(m, from_series, to_study) ==
    IF to_study[1] = from_series[1] THEN m ELSE VisitedFrom(m, Loaded(m.far))

\* The call of _copy_series in the loop of _copy_study, which an exception
\* of the lines before it never reaches.
CopySeriesNext(m, from_series, to_series) ==
    IF ~m.ok THEN m ELSE CopySeries(m, from_series, to_series)

\* The loop of _copy_study over the series found before the loop started.
RECURSIVE CopyStudyLoop(_, _, _, _)
CopyStudyLoop(m, from_study_series, to_study, i) ==
    IF i > Len(from_study_series) \/ ~m.ok THEN m
    ELSE LET from_series == from_study_series[i]
             to_series == AppendChild(m.reg, to_study,
                                      from_series[Len(from_series)])
         IN  CopyStudyLoop(CopySeriesNext(Visited(m, from_series, to_study),
                                          from_series, to_series),
                           from_study_series, to_study, i + 1)

\* _copy_study(from_study, to_study)
CopyStudy(m, from_study, to_study) ==
    CopyStudyLoop(m, Series(m.reg, from_study), to_study, 1)

\* The loop of _copy_patient over the studies found before the loop started.
\* When the destination is in a second folder the first pass reads
\* to_study[0] before to_study is assigned, which raises.
RECURSIVE CopyPatientLoop(_, _, _, _)
CopyPatientLoop(m, from_patient_studies, to_patient, i) ==
    IF i > Len(from_patient_studies) \/ ~m.ok THEN m
    ELSE IF to_patient[1] # from_patient_studies[i][1] THEN Raise(m)
    ELSE LET from_study == from_patient_studies[i]
             to_study == AppendChild(m.reg, to_patient,
                                     from_study[Len(from_study)])
         IN  CopyPatientLoop(CopyStudy(m, from_study, to_study),
                             from_patient_studies, to_patient, i + 1)

\* _copy_patient(from_patient, to_patient)
CopyPatient(m, from_patient, to_patient) ==
    CopyPatientLoop(m, Studies(m.reg, from_patient), to_patient, 1)

\* copy(from_entity, to_entity): ValueError unless both are series, both
\* studies or both patients.
CopyEntity(m, from_entity, to_entity) ==
    IF Len(from_entity) = 4
    THEN IF Len(to_entity) # 4 THEN Raise(m)
         ELSE CopySeries(m, from_entity, to_entity)
    ELSE IF Len(from_entity) = 3
    THEN IF Len(to_entity) # 3 THEN Raise(m)
         ELSE CopyStudy(m, from_entity, to_entity)
    ELSE IF Len(from_entity) = 2
    THEN IF Len(to_entity) # 2 THEN Raise(m)
         ELSE CopyPatient(m, from_entity, to_entity)
    ELSE Raise(m)

\* A delete() that drops the rows under the address and their files.
DeleteEntity_Drops(m, entity) ==
    LET index == SeqToSet(Index(m.reg, entity))
        Kept(row) == row.path \notin index
    IN  [m EXCEPT !.reg = SelectSeq(m.reg, Kept),
                  !.disk = [p \in DOMAIN m.disk \ index |-> m.disk[p]]]

\* delete(entity)
DeleteEntity(m, entity) ==
    LET index == SeqToSet(Index(m.reg, entity))
    IN  [m EXCEPT !.reg = [i \in DOMAIN m.reg |->
            IF m.reg[i].path \in index
            THEN [m.reg[i] EXCEPT !.removed = TRUE] ELSE m.reg[i]]]

\* A move() that deletes the source whatever copy() did.
MoveEntity_AlwaysDeletes(m, from_entity, to_entity) ==
    DeleteEntity(CopyEntity(m, from_entity, to_entity), from_entity)

\* move(from_entity, to_entity): an exception of copy leaves before delete.
MoveEntity(m, from_entity, to_entity) ==
    LET c == CopyEntity(m, from_entity, to_entity)
    IN  IF c.ok THEN DeleteEntity(c, from_entity) ELSE c

---------------------------------------------------------------------------
(* volume(): a series assembled into one volume.  Every slice has the      *)
(* coordinates <<SliceLocation, extra>>: dims is one non-spatial dimension. *)

\* np.unique: the values of a set in increasing order.
RECURSIVE Sorted(_)
Sorted(S) ==
    IF S = {} THEN <<>>
    ELSE <<CHOOSE x \in S : \A y \in S : x <= y>>
         \o Sorted(S \ {CHOOSE x \in S : \A y \in S : x <= y})

\* The distinct values along axis d of the coordinates of the slices.
AxisValues(values, d) == Sorted({values[i][d] : i \in DOMAIN values})

\* The shape of the grid of the two axes.
MeshShape(values) ==
    <<Len(AxisValues(values, 1)), Len(AxisValues(values, 2))>>

\* The number of cells of a grid of the given shape.
Cells(shape) == shape[1] * shape[2]

\* The coordinates of cell <<i, j>> of the grid of the slices.
CellCoords(values, i, j) ==
    <<AxisValues(values, 1)[i], AxisValues(values, 2)[j]>>

\* The position of cell <<i, j>> in a flat array reshaped to shape.
Flat(shape, i, j) == (i - 1) * shape[2] + j

\* The coordinates of the slices are those of the cells, each once.
IsMesh(values) ==
    /\ Len(values) = Cells(MeshShape(values))
    /\ \A i \in 1..MeshShape(values)[1] : \A j \in 1..MeshShape(values)[2] :
          \E s \in DOMAIN values : values[s] = CellCoords(values, i, j)

\* dbdicom.utils.arrays.meshvals(coords): what it can return, as [ok,
\* shape, inds], inds[c] the slice placed at the cell of flat position c.
\* It raises when there are not as many slices as cells.  When there are
\* and the slices do not cover the cells, nothing is said of where they go:
\* it raises or places them in any order.
MeshVals(values) ==
    IF Len(values) # Cells(MeshShape(values))
    THEN {[ok |-> FALSE, shape |-> MeshShape(values), inds |-> <<>>]}
    ELSE IF IsMesh(values)
    THEN {[ok |-> TRUE, shape |-> MeshShape(values),
           inds |-> [c \in 1..Len(values) |->
                       CHOOSE s \in DOMAIN values :
                          \E i \in 1..MeshShape(values)[1] :
                          \E j \in 1..MeshShape(values)[2] :
                             /\ c = Flat(MeshShape(values), i, j)
                             /\ values[s] = CellCoords(values, i, j)]]}
    ELSE {[ok |-> FALSE, shape |-> MeshShape(values), inds |-> <<>>]}
         \cup {[ok |-> TRUE, shape |-> MeshShape(values), inds |-> f] :
                 f \in {g \in [DOMAIN values -> DOMAIN values] :
                          \A a \in DOMAIN values : \A b \in DOMAIN values :
                             g[a] = g[b] => a = b}}

\* coords[1:, k, ...] of the mesh: the non-spatial coordinates of the
\* slices at index k (from 1) along the first axis of the grid.
CoordsAt(values, mesh, k) ==
    [j \in 1..mesh.shape[2] |-> values[mesh.inds[Flat(mesh.shape, k, j)]][2]]

\* A check of the coordinates that never finds a difference.
SameCoordinates_Always(values, mesh) == TRUE

\* The check of volume() that all slices have the same coordinates:
\* coords[1:, k+1, ...] equals c0 = coords[1:, 0, ...] for every k.
SameCoordinates(values, mesh) ==
    \A k \in 1..(mesh.shape[1] - 1) :
       CoordsAt(values, mesh, k + 1) = CoordsAt(values, mesh, 1)

\* No volume: volume() has not been called.
NoVolume ==
    [stage |-> "none", ok |-> TRUE, error |-> "", locations |-> <<>>,
     coords |-> <<>>, written |-> <<>>]

\* A volume() that returns a volume whatever meshvals did.
VolumeOf_IgnoresMesh(values, mesh) ==
    [NoVolume EXCEPT !.stage = "volume",
                     !.locations = AxisValues(values, 1),
                     !.coords = AxisValues(values, 2)]

\* volume(series, dims) from "Format as mesh" on, for one outcome of
\* meshvals.  vreg.join gives the volume the slice locations of the first
\* column of the grid; set_coords gives it c0.
VolumeOf(values, mesh) ==
    IF ~mesh.ok
    THEN [NoVolume EXCEPT !.stage = "volume", !.ok = FALSE,
                          !.error = "IncompleteGrid"]
    ELSE IF ~SameCoordinates(values, mesh)
    THEN [NoVolume EXCEPT !.stage = "volume", !.ok = FALSE,
                          !.error = "GeometryInconsistency"]
    ELSE [NoVolume EXCEPT
            !.stage = "volume",
            !.locations = [i \in 1..mesh.shape[1] |->
                             values[mesh.inds[Flat(mesh.shape, i, 1)]][1]],
            !.coords = CoordsAt(values, mesh, 1)]

\* Loops of write_volume that write the first 3-D volume only.
SeparateAndSplit_FirstVolume(v) ==
    [c \in 1..Len(v.locations) |-> <<v.locations[c], v.coords[1]>>]

\* The loops of write_volume for a volume of more than 3 dimensions: the
\* coordinates of the slices in the order they are written, one 3-D volume
\* for each non-spatial coordinate and one slice for each location.
SeparateAndSplit(v) ==
    [c \in 1..(Len(v.coords) * Len(v.locations)) |->
        <<v.locations[((c - 1) % Len(v.locations)) + 1],
          v.coords[((c - 1) \div Len(v.locations)) + 1]>>]

---------------------------------------------------------------------------
(* The folders the model opens *)

\* One patient, one study, one series of two instances.
CatalogA ==
    << Row(5, Dataset(1, "P1", 2, "S1", 3, "E1", 1, 1, 4), FALSE, FALSE),
       Row(7, Dataset(1, "P1", 2, "S1", 3, "E1", 1, 2, 6), FALSE, FALSE) >>

\* One patient, two studies of one series of one instance each.
CatalogB ==
    << Row(5, Dataset(1, "P1", 2, "S1", 3, "E1", 1, 1, 4), FALSE, FALSE),
       Row(9, Dataset(1, "P1", 6, "S2", 7, "E1", 1, 1, 8), FALSE, FALSE) >>

\* One patient, two studies of one series of three instances each.
CatalogC ==
    << Row(5,  Dataset(1, "P1", 2, "S1", 3, "E1", 1, 1, 4), FALSE, FALSE),
       Row(7,  Dataset(1, "P1", 2, "S1", 3, "E1", 1, 2, 6), FALSE, FALSE),
       Row(9,  Dataset(1, "P1", 2, "S1", 3, "E1", 1, 3, 8), FALSE, FALSE),
       Row(13, Dataset(1, "P1", 10, "S2", 11, "E1", 1, 1, 12), FALSE, FALSE),
       Row(15, Dataset(1, "P1", 10, "S2", 11, "E1", 1, 2, 14), FALSE, FALSE),
       Row(17, Dataset(1, "P1", 10, "S2", 11, "E1", 1, 3, 16), FALSE, FALSE) >>

InitCatalogs == {CatalogA, CatalogB}

\* The files of a register, each holding the dataset its row was read from.
FolderOf(r) == [p \in Paths(r) |-> DatasetOf(RowAt(r, p))]

\* The volumes write_volume is given.
Volumes ==
    {[ndim |-> 3, frames |-> 1, slices |-> k] : k \in 1..MaxSlices}
    \cup {[ndim |-> 4, frames |-> f, slices |-> 1] : f \in 2..MaxFrames}

\* The reference series write_volume is given: none, or the first series.
Refs == {<<>>, <<Root, "P1", "S1", "E1">>}

NoSession == [appended |-> 0, deleted |-> FALSE]

\* The two objects that are opened on the one folder, where a second one is.
Sessions == {1, 2}

\* No history of the two objects: there is one object only.
NoCommits ==
    [loaded |-> [s \in Sessions |-> <<>>], added |-> [s \in Sessions |-> {}],
     writer |-> 0]

\* A second folder that holds no file and no register file.
NoFolder == [disk |-> <<>>, snap |-> <<>>, pkl |-> "none"]

\* The rows of r that are still in r2 with another created or removed flag.
FlagChanges(r, r2) ==
    Cardinality({p \in Paths(r) \cap Paths(r2) :
                    \/ RowAt(r, p).created # RowAt(r2, p).created
                    \/ RowAt(r, p).removed # RowAt(r2, p).removed})

\* The number of rows of r with the given created and removed flags.
Staged(r, created, removed) ==
    Cardinality({i \in DOMAIN r :
                    r[i].created = created /\ r[i].removed = removed})

\* What a call did: its name, whether it returned normally, by how much it
\* changed the number of rows and of files, how many rows it flagged or
\* unflagged, how many rows it found created only, removed only and both
\* created and removed, and what the session had done before it.
Outcome(op, ok, r2, d2) ==
    [op |-> op, ok |-> ok,
     rows |-> Len(r2) - Len(reg),
     files |-> Cardinality(DOMAIN d2) - Cardinality(DOMAIN disk),
     flags |-> FlagChanges(reg, r2),
     nCreated |-> Staged(reg, TRUE, FALSE),
     nRemoved |-> Staged(reg, FALSE, TRUE),
     nBoth |-> Staged(reg, TRUE, TRUE),
     appended |-> sess.appended, deleted |-> sess.deleted]

---------------------------------------------------------------------------
(* The state machine *)

InitFrom(catalogs) ==
    /\ reg \in catalogs
    /\ disk = FolderOf(reg)
    /\ snap = reg
    /\ pkl = "saved"
    /\ last = [op |-> "open", ok |-> TRUE, rows |-> 0, files |-> 0, flags |-> 0,
               nCreated |-> 0, nRemoved |-> 0, nBoth |-> 0,
               appended |-> 0, deleted |-> FALSE]
    /\ savedReg = reg
    /\ savedDisk = disk
    /\ sess = NoSession
    /\ calls = 0
    /\ given = <<>>
    /\ built = NoVolume
    /\ peer = <<>>
    /\ commits = NoCommits
    /\ dest = NoFolder

\* DataBaseDicom(path) on a folder whose snapshot is there and loads.
Init == InitFrom(InitCatalogs)

\* The folder m leaves holds no more than maxFiles files.
Within(m, maxFiles) == Cardinality(DOMAIN m.disk) <= maxFiles

\* What a call of copy, move, delete or write_volume that ends in m leaves.
Leaves(m, op) ==
    /\ calls' = calls + 1
    /\ reg' = m.reg
    /\ disk' = m.disk
    /\ last' = Outcome(op, m.ok, m.reg, m.disk)
    /\ sess' = [appended |-> sess.appended + Len(m.reg) - Len(reg),
                deleted |-> sess.deleted \/
                            (m.ok /\ op \in {"delete", "move"})]
    /\ UNCHANGED <<snap, pkl, savedReg, savedDisk, given, built, peer, commits,
                   dest>>

\* DataBaseDicom(path) again: the session ends without close() and the
\* snapshot is loaded.
Open ==
    /\ reg' = snap
    /\ last' = Outcome("open", TRUE, snap, disk)
    /\ savedReg' = snap
    /\ savedDisk' = disk
    /\ sess' = NoSession
    /\ UNCHANGED <<disk, snap, pkl, calls, given, built, peer, commits, dest>>

CopyWithin(from_entity, to_entity, maxFiles) ==
    /\ calls < MaxCalls
    /\ \E m \in {CopyEntity(Mem(reg, disk), from_entity, to_entity)} :
          Within(m, maxFiles) /\ Leaves(m, "copy")

Copy(from_entity, to_entity) == CopyWithin(from_entity, to_entity, MaxFiles)

Delete(entity) ==
    /\ calls < MaxCalls
    /\ \E m \in {DeleteEntity(Mem(reg, disk), entity)} : Leaves(m, "delete")

Move(from_entity, to_entity) ==
    /\ calls < MaxCalls
    /\ \E m \in {MoveEntity(Mem(reg, disk), from_entity, to_entity)} :
          Within(m, MaxFiles) /\ Leaves(m, "move")

Write(vol, series, ref) ==
    /\ calls < MaxCalls
    /\ \E m \in {WriteVolume(Mem(reg, disk), vol, series, ref)} :
          Within(m, MaxFiles) /\ Leaves(m, "write_volume")

\* close(): the snapshot is the register it leaves.
Close ==
    /\ reg' = CloseRegister(reg)
    /\ disk' = CloseFolder(reg, disk)
    /\ snap' = CloseRegister(reg)
    /\ pkl' = "saved"
    /\ last' = Outcome("close", TRUE, CloseRegister(reg), CloseFolder(reg, disk))
    /\ savedReg' = CloseRegister(reg)
    /\ savedDisk' = CloseFolder(reg, disk)
    /\ sess' = NoSession
    /\ UNCHANGED <<calls, given, built, peer, commits, dest>>

\* restore(): the snapshot is the register it leaves.
Restore ==
    /\ reg' = RestoreRegister(reg)
    /\ disk' = RestoreFolder(reg, disk)
    /\ snap' = RestoreRegister(reg)
    /\ pkl' = "saved"
    /\ last' = Outcome("restore", TRUE, RestoreRegister(reg),
                        RestoreFolder(reg, disk))
    /\ savedReg' = RestoreRegister(reg)
    /\ savedDisk' = RestoreFolder(reg, disk)
    /\ sess' = NoSession
    /\ UNCHANGED <<calls, given, built, peer, commits, dest>>

\* The pairs of addresses that copy() and move() are given: every pair of
\* addresses of one level and, for every address, one destination of
\* another level.
Pairs ==
    {p \in Addrs \X Addrs :
        \/ Len(p[1]) = Len(p[2])
        \/ p[2] = (IF Len(p[1]) = 1 THEN <<Root, "P1">> ELSE <<Root>>)}

Next ==
    \/ Open
    \/ \E p \in Pairs : Copy(p[1], p[2])
    \/ \E e \in Addrs : Delete(e)
    \/ \E p \in Pairs : Move(p[1], p[2])
    \/ \E v \in Volumes, s \in Addr4, r \in Refs : Write(v, s, r)
    \/ Close
    \/ Restore

Spec == Init /\ [][Next]_vars

\* The runs of copy, delete, close and restore on the three folders, the
\* folder kept within ExampleFiles files.
InitCopy == InitFrom({CatalogA, CatalogB, CatalogC})

CopyLarge(from_entity, to_entity) ==
    CopyWithin(from_entity, to_entity, ExampleFiles)

NextCopy ==
    \/ \E f \in Addrs, t \in Addrs : CopyLarge(f, t)
    \/ \E e \in Addrs : Delete(e)
    \/ Close
    \/ Restore

SpecCopy == InitCopy /\ [][NextCopy]_vars

\* The runs of copy, move, delete, close and restore on a device that
\* takes room more files and then raises on every write.
CopyOnFull(from_entity, to_entity, room) ==
    LET m == CopyEntity(MemOn(reg, disk, Cardinality(DOMAIN disk) + room),
                        from_entity, to_entity)
    IN  /\ calls < MaxCalls
        /\ Leaves([reg |-> m.reg, disk |-> m.disk, ok |-> m.ok], "copy")

MoveOnFull(from_entity, to_entity, room) ==
    LET m == MoveEntity(MemOn(reg, disk, Cardinality(DOMAIN disk) + room),
                        from_entity, to_entity)
    IN  /\ calls < MaxCalls
        /\ Leaves([reg |-> m.reg, disk |-> m.disk, ok |-> m.ok], "move")

NextFull ==
    \/ \E f \in Addrs, t \in Addrs, k \in 0..MaxRoom : CopyOnFull(f, t, k)
    \/ \E f \in Addrs, t \in Addrs, k \in 0..MaxRoom : MoveOnFull(f, t, k)
    \/ \E e \in Addrs : Delete(e)
    \/ Close
    \/ Restore

SpecFull == Init /\ [][NextFull]_vars

\* The folders the rebuild scans: one series of two instances of one class;
\* one series of three instances of two classes; one series of three
\* instances of three classes; one series of a single-frame and a
\* multiframe instance.
FolderOneClass ==
    (5 :> Image(Dataset(1, "P1", 2, "S1", 3, "E1", 1, 1, 4), NoFrames, "MR"))
    @@ (7 :> Image(Dataset(1, "P1", 2, "S1", 3, "E1", 1, 2, 6), NoFrames, "MR"))

FolderTwoClasses ==
    (5 :> Image(Dataset(1, "P1", 2, "S1", 3, "E1", 1, 1, 4), NoFrames, "MR"))
    @@ (7 :> Image(Dataset(1, "P1", 2, "S1", 3, "E1", 1, 2, 6), NoFrames, "SEG"))
    @@ (9 :> Image(Dataset(1, "P1", 2, "S1", 3, "E1", 1, 3, 8), NoFrames, "MR"))

FolderThreeClasses ==
    (5 :> Image(Dataset(1, "P1", 2, "S1", 3, "E1", 1, 1, 4), NoFrames, "MR"))
    @@ (7 :> Image(Dataset(1, "P1", 2, "S1", 3, "E1", 1, 2, 6), NoFrames, "SEG"))
    @@ (9 :> Image(Dataset(1, "P1", 2, "S1", 3, "E1", 1, 3, 8), NoFrames, "SR"))

FolderMultiframe ==
    (5 :> Image(Dataset(1, "P1", 2, "S1", 3, "E1", 1, 1, 4), NoFrames, "MR"))
    @@ (7 :> Image(Dataset(1, "P1", 2, "S1", 3, "E1", 1, 2, 6), 2, "MR"))

Folders ==
    {FolderOneClass, FolderTwoClasses, FolderThreeClasses, FolderMultiframe}

\* A folder before DataBaseDicom(path) is called on it: its register file
\* is missing or does not load.
InitRead ==
    /\ reg = <<>>
    /\ disk \in Folders
    /\ snap = <<>>
    /\ pkl \in {"none", "corrupt"}
    /\ last = [op |-> "none", ok |-> TRUE, rows |-> 0, files |-> 0, flags |-> 0,
               nCreated |-> 0, nRemoved |-> 0, nBoth |-> 0,
               appended |-> 0, deleted |-> FALSE]
    /\ savedReg = <<>>
    /\ savedDisk = disk
    /\ sess = NoSession
    /\ calls = 0
    /\ given = <<>>
    /\ built = NoVolume
    /\ peer = <<>>
    /\ commits = NoCommits
    /\ dest = NoFolder

\* What __init__ leaves when it has called read() and read() ended in m:
\* the call is named "recover" when the register file did not load and
\* "rebuild" when there was none.  No register file is written.  When
\* read() raises, so does __init__, and there is no object.
Rebuilt(m) ==
    /\ reg' = IF m.ok THEN m.reg ELSE <<>>
    /\ disk' = m.disk
    /\ pkl' = "none"
    /\ last' = Outcome(IF pkl = "corrupt" THEN "recover" ELSE "rebuild",
                       m.ok, m.reg, m.disk)
    /\ savedReg' = IF m.ok THEN m.reg ELSE <<>>
    /\ savedDisk' = m.disk
    /\ sess' = NoSession
    /\ UNCHANGED <<snap, calls, given, built, peer, commits, dest>>

\* DataBaseDicom(path): the register file is loaded when it is there and
\* loads; otherwise it is removed if it is there and the folder is read.
Construct ==
    IF pkl = "saved" THEN Open ELSE Rebuilt(ReadFolder(disk))

\* There is an object: the last DataBaseDicom(path) returned.
Constructed ==
    /\ last.op # "none"
    /\ ~(last.op \in {"rebuild", "recover"} /\ ~last.ok)

DeleteRead(entity) == Constructed /\ Delete(entity)

CopyRead(from_entity, to_entity) == Constructed /\ Copy(from_entity, to_entity)

CloseRead == Constructed /\ Close

RestoreRead == Constructed /\ Restore

NextRead ==
    \/ Construct
    \/ \E e \in Addrs : DeleteRead(e)
    \/ \E f \in Addrs, t \in Addrs : CopyRead(f, t)
    \/ CloseRead
    \/ RestoreRead

SpecRead == InitRead /\ [][NextRead]_vars

\* The runs of volume() on the slices of one series, followed by
\* write_volume() of the volume it returned.  The catalog is left aside.
Extras == {0, 1}

InitMesh ==
    /\ reg = <<>>
    /\ disk = <<>>
    /\ snap = <<>>
    /\ pkl = "none"
    /\ last = [op |-> "none", ok |-> TRUE, rows |-> 0, files |-> 0, flags |-> 0,
               nCreated |-> 0, nRemoved |-> 0, nBoth |-> 0,
               appended |-> 0, deleted |-> FALSE]
    /\ savedReg = <<>>
    /\ savedDisk = <<>>
    /\ sess = NoSession
    /\ calls = 0
    /\ given \in UNION {[1..n -> (0..MaxLocation) \X Extras] : n \in 1..MaxInput}
    /\ built = NoVolume
    /\ peer = <<>>
    /\ commits = NoCommits
    /\ dest = NoFolder

\* volume(series, dims)
Volume ==
    /\ built.stage = "none"
    /\ \E mesh \in MeshVals(given) : built' = VolumeOf(given, mesh)
    /\ UNCHANGED <<reg, disk, snap, pkl, last, savedReg, savedDisk, sess,
                   calls, given, peer, commits, dest>>

\* write_volume(vol, series) of the volume that volume() returned.
WriteBack ==
    /\ built.stage = "volume"
    /\ built.ok
    /\ built' = [built EXCEPT !.stage = "written",
                              !.written = SeparateAndSplit(built)]
    /\ UNCHANGED <<reg, disk, snap, pkl, last, savedReg, savedDisk, sess,
                   calls, given, peer, commits, dest>>

NextMesh == Volume \/ WriteBack

SpecMesh == InitMesh /\ [][NextMesh]_vars

---------------------------------------------------------------------------
(* close() and restore() *)

\* C1: close() leaves no row that was removed, whatever its created flag,
\* and no file of such a row; every row it leaves has created = FALSE; the
\* snapshot it writes is the register it leaves.
CloseCommits ==
    [][last'.op = "close" =>
        /\ \A i \in DOMAIN reg : reg[i].removed =>
              /\ reg[i].path \notin Paths(reg')
              /\ reg[i].path \notin DOMAIN disk'
        /\ \A i \in DOMAIN reg' : ~reg'[i].created
        /\ snap' = reg']_vars

\* A close() that found rows removed only and rows created and removed, and
\* deleted files.
CloseCommitsWitness ==
    /\ last.op = "close"
    /\ last.nRemoved > 0
    /\ last.nBoth > 0
    /\ last.rows < 0
    /\ last.files < 0

\* C2: restore() drops every row that was created and not removed and
\* deletes its file; it keeps every row that was removed and not created,
\* not removed any more, and leaves its file as it was; the snapshot it
\* writes is the register it leaves; when the session only appended rows,
\* the register is as long as at the last saved point.
RestoreRollsBack ==
    [][last'.op = "restore" =>
        /\ \A i \in DOMAIN reg : (reg[i].created /\ ~reg[i].removed) =>
              /\ reg[i].path \notin Paths(reg')
              /\ reg[i].path \notin DOMAIN disk'
        /\ \A i \in DOMAIN reg : (reg[i].removed /\ ~reg[i].created) =>
              /\ reg[i].path \in Paths(reg')
              /\ RowAt(reg', reg[i].path) = [reg[i] EXCEPT !.removed = FALSE]
              /\ reg[i].path \in DOMAIN disk'
              /\ disk'[reg[i].path] = disk[reg[i].path]
        /\ snap' = reg'
        /\ ~sess.deleted =>
              /\ Len(reg') = Len(savedReg)
              /\ Len(reg') = Len(reg) - sess.appended]_vars

\* A restore() that found rows created only and rows removed only.
RestoreRollsBackWitness ==
    /\ last.op = "restore"
    /\ last.nCreated > 0
    /\ last.nRemoved > 0
    /\ last.rows < 0
    /\ last.files < 0
    /\ last.flags > 0

\* C3: restore() leaves the rows and the instance files that were there at
\* the last open, close or restore, whatever copy, write_volume and delete
\* calls were made since.
RestoreReturnsToSaved ==
    [][last'.op = "restore" =>
        /\ Paths(reg') = Paths(savedReg)
        /\ DOMAIN disk' = DOMAIN savedDisk]_vars

\* C4: after close() and after restore() no row is created and no row is
\* removed.
LoadedAfterTerminal ==
    last.op \in {"close", "restore"} =>
        \A i \in DOMAIN reg : ~reg[i].created /\ ~reg[i].removed

\* A restore() that found rows created and removed in the same session.
LoadedAfterTerminalWitness ==
    /\ last.op = "restore"
    /\ last.nBoth > 0
    /\ last.deleted
    /\ reg # <<>>

\* C5: close() at the end of a session that only appended rows deletes no
\* file and drops no row, leaves every row with created = FALSE, and leaves
\* as many rows as the last saved point had plus the rows appended since;
\* any close() leaves every row that is not removed, and its file.
CloseAfterAppends ==
    [][last'.op = "close" =>
        /\ \A i \in DOMAIN reg : ~reg[i].removed =>
              /\ reg[i].path \in Paths(reg')
              /\ RowAt(reg', reg[i].path) = [reg[i] EXCEPT !.created = FALSE]
              /\ reg[i].path \in DOMAIN disk'
        /\ ~sess.deleted =>
              /\ disk' = disk
              /\ Paths(reg') = Paths(reg)
              /\ \A i \in DOMAIN reg' : ~reg'[i].created
              /\ Len(reg') = Len(savedReg) + sess.appended]_vars

\* A close() at the end of a session that appended rows and deleted none.
CloseAfterAppendsWitness ==
    /\ last.op = "close"
    /\ ~last.deleted
    /\ last.appended > 0
    /\ last.nCreated = last.appended
    /\ last.flags = last.appended
    /\ last.rows = 0
    /\ last.files = 0

---------------------------------------------------------------------------
(* delete(), and the shape check of copy() and move() *)

\* C6: delete(entity) sets removed on every row under the address, changes
\* nothing else of the register, drops no row, deletes no file and writes
\* no snapshot; the file of a removed row stays on disk in every step but a
\* close(), and a restore() when the row was created in the same session.
DeleteStages ==
    [][/\ \A e \in Addrs : (last'.op = "delete" /\ Delete(e)) =>
              /\ Len(reg') = Len(reg)
              /\ \A i \in DOMAIN reg :
                    reg'[i] = IF Matches(reg[i], e)
                              THEN [reg[i] EXCEPT !.removed = TRUE]
                              ELSE reg[i]
              /\ disk' = disk
              /\ snap' = snap
       /\ \A i \in DOMAIN reg :
              (/\ reg[i].removed
               /\ last'.op # "close"
               /\ ~(last'.op = "restore" /\ reg[i].created))
              => /\ reg[i].path \in DOMAIN disk'
                 /\ disk'[reg[i].path] = disk[reg[i].path]]_vars

\* A delete() that marked rows removed, all of them with their file on disk.
DeleteStagesWitness ==
    /\ last.op = "delete"
    /\ last.ok
    /\ last.flags > 0
    /\ last.rows = 0
    /\ last.files = 0
    /\ \A i \in DOMAIN reg : reg[i].removed => reg[i].path \in DOMAIN disk

\* C6 as stated: delete(entity) only stages, and the file of a removed row
\* stays on disk in every step but a close().
DeleteStagesUntilClose ==
    [][/\ \A e \in Addrs : (last'.op = "delete" /\ Delete(e)) =>
              /\ Len(reg') = Len(reg)
              /\ \A i \in DOMAIN reg :
                    reg'[i] = IF Matches(reg[i], e)
                              THEN [reg[i] EXCEPT !.removed = TRUE]
                              ELSE reg[i]
              /\ disk' = disk
              /\ snap' = snap
       /\ \A i \in DOMAIN reg :
              (reg[i].removed /\ last'.op # "close")
              => reg[i].path \in DOMAIN disk']_vars

\* C7: in every state, copy(from, to) and move(from, to) with addresses of
\* unequal depth, or with a source that is not a patient, a study or a
\* series, raise and leave the register and the folder as they are; the
\* snapshot is the one the last open, close or restore left.
ShapeMismatchMutatesNothing ==
    /\ \A m \in {Mem(reg, disk)} : \A f \in Addrs, t \in Addrs :
          (Len(f) # Len(t) \/ Len(f) \notin {2, 3, 4}) =>
              /\ CopyEntity(m, f, t) = Raise(m)
              /\ MoveEntity(m, f, t) = Raise(m)
    /\ snap = savedReg

\* A move() that raised, in a folder whose register has rows to remove.
ShapeMismatchWitness ==
    /\ last.op = "move"
    /\ ~last.ok
    /\ last.rows = 0
    /\ last.files = 0
    /\ last.flags = 0
    /\ \E i \in DOMAIN reg : ~reg[i].removed

---------------------------------------------------------------------------
(* Instance numbers and identifiers of the instances copy() and             *)
(* write_volume() create                                                     *)

\* C8: no two rows that are not removed have the same SeriesInstanceUID and
\* the same InstanceNumber.
UniqueInstanceNumbers ==
    \A i \in DOMAIN reg, j \in DOMAIN reg :
        (/\ i # j
         /\ ~reg[i].removed
         /\ ~reg[j].removed
         /\ reg[i].SeriesInstanceUID = reg[j].SeriesInstanceUID)
        => reg[i].InstanceNumber # reg[j].InstanceNumber

\* A copy() that appended rows to a series that had rows before the session.
UniqueInstanceNumbersWitness ==
    /\ last.op = "copy"
    /\ last.ok
    /\ last.rows > 0
    /\ \E i \in DOMAIN reg, j \in DOMAIN reg :
          /\ reg[i].created /\ ~reg[i].removed
          /\ ~reg[j].created /\ ~reg[j].removed
          /\ reg[i].SeriesInstanceUID = reg[j].SeriesInstanceUID

\* C9: copy(from, to) of a series of k files to a series address that has
\* no row appends k rows and changes no row and no file that was there, and
\* writes k files; the i-th appended row is created and not removed, has
\* InstanceNumber i, the i-th file of the source in register.files order
\* being its source, and a SOPInstanceUID that no row had before and no
\* other appended row has.  copy() of the patient of two studies of one
\* series of three instances each to a new patient address appends six
\* rows, of two new studies and two new series, numbered 1..3 in each.
CopyToNewSeries ==
    [][/\ \A f \in Addr4, t \in Addr4 :
              (/\ last'.op = "copy"
               /\ Index(reg, t) = <<>>
               /\ CopyLarge(f, t))
              => /\ last'.ok
                 /\ Len(reg') = Len(reg) + Len(Files(reg, f))
                 /\ SubSeq(reg', 1, Len(reg)) = reg
                 /\ \A p \in DOMAIN disk :
                       p \in DOMAIN disk' /\ disk'[p] = disk[p]
                 /\ Cardinality(DOMAIN disk') =
                       Cardinality(DOMAIN disk) + Len(Files(reg, f))
                 /\ \A i \in 1..Len(Files(reg, f)) :
                       /\ reg'[Len(reg) + i].created
                       /\ ~reg'[Len(reg) + i].removed
                       /\ reg'[Len(reg) + i].InstanceNumber = i
                       /\ reg'[Len(reg) + i].path \notin DOMAIN disk
                       /\ disk'[reg'[Len(reg) + i].path] =
                             DatasetOf(reg'[Len(reg) + i])
                       /\ Matches(reg'[Len(reg) + i], t)
                       /\ \A j \in DOMAIN reg :
                             reg[j].SOPInstanceUID #
                                reg'[Len(reg) + i].SOPInstanceUID
                       /\ \A j \in 1..Len(Files(reg, f)) :
                             j # i => reg'[Len(reg) + j].SOPInstanceUID #
                                         reg'[Len(reg) + i].SOPInstanceUID
       /\ (/\ last'.op = "copy"
           /\ reg = CatalogC
           /\ CopyLarge(<<Root, "P1">>, <<Root, "P2">>))
          => /\ last'.ok
             /\ Len(reg') = Len(reg) + 6
             /\ SubSeq(reg', 1, Len(reg)) = reg
             /\ Cardinality({reg'[i].StudyInstanceUID : i \in 7..12}
                            \ {reg[j].StudyInstanceUID : j \in 1..6}) = 2
             /\ Cardinality({reg'[i].SeriesInstanceUID : i \in 7..12}
                            \ {reg[j].SeriesInstanceUID : j \in 1..6}) = 2
             /\ Cardinality({reg'[i].SOPInstanceUID : i \in 7..12}
                            \ {reg[j].SOPInstanceUID : j \in 1..6}) = 6
             /\ \A i \in 7..12 :
                   /\ reg'[i].created /\ ~reg'[i].removed
                   /\ Matches(reg'[i], <<Root, "P2">>)
                   /\ {reg'[j].InstanceNumber : j \in
                          {n \in 7..12 : reg'[n].SeriesInstanceUID =
                                            reg'[i].SeriesInstanceUID}}
                      = 1..3]_vars

\* A copy() of the series of three files to a series address that had no
\* row, after a copy() of the patient to a new patient address.
CopyToNewSeriesWitness ==
    /\ last.op = "copy"
    /\ last.ok
    /\ last.rows = 3
    /\ last.files = 3
    /\ Len(Index(reg, <<Root, "P1", "S1", "E2">>)) = 3
    /\ Len(Index(reg, <<Root, "P2">>)) = 6
    /\ \A i \in DOMAIN reg : reg[i].created <=> i > 6

\* C10: every file that copy(), move() or write_volume() writes at the
\* address of a patient, study or series that has a row that is not removed
\* carries the PatientID, the StudyInstanceUID or the SeriesInstanceUID of
\* the first such row, and all three of the first such row of the series;
\* every row it appends is the row of such a file.
ExistingIdentifiersKept ==
    [][last'.op \in {"copy", "move", "write_volume"} =>
        /\ \A p \in DOMAIN disk' \ DOMAIN disk :
              /\ Index(reg, <<Root, disk'[p].PatientName>>) # <<>> =>
                    disk'[p].PatientID =
                       RowAt(reg, Index(reg, <<Root, disk'[p].PatientName>>)[1])
                          .PatientID
              /\ Index(reg, <<Root, disk'[p].PatientName,
                              disk'[p].StudyDescription>>) # <<>> =>
                    disk'[p].StudyInstanceUID =
                       RowAt(reg, Index(reg, <<Root, disk'[p].PatientName,
                                        disk'[p].StudyDescription>>)[1])
                          .StudyInstanceUID
              /\ Index(reg, <<Root, disk'[p].PatientName,
                              disk'[p].StudyDescription,
                              disk'[p].SeriesDescription>>) # <<>> =>
                    <<disk'[p].PatientID, disk'[p].StudyInstanceUID,
                      disk'[p].SeriesInstanceUID>> =
                       <<RowAt(reg, Index(reg, <<Root, disk'[p].PatientName,
                                          disk'[p].StudyDescription,
                                          disk'[p].SeriesDescription>>)[1])
                            .PatientID,
                         RowAt(reg, Index(reg, <<Root, disk'[p].PatientName,
                                          disk'[p].StudyDescription,
                                          disk'[p].SeriesDescription>>)[1])
                            .StudyInstanceUID,
                         RowAt(reg, Index(reg, <<Root, disk'[p].PatientName,
                                          disk'[p].StudyDescription,
                                          disk'[p].SeriesDescription>>)[1])
                            .SeriesInstanceUID>>
        /\ \A i \in DOMAIN reg' :
              i > Len(reg) =>
                 /\ reg'[i].path \in DOMAIN disk' \ DOMAIN disk
                 /\ DatasetOf(reg'[i]) = disk'[reg'[i].path]]_vars

\* A write_volume() that appended rows to a series that had rows before the
\* session, after a copy() that did.
ExistingIdentifiersKeptWitness ==
    /\ last.op = "write_volume"
    /\ last.ok
    /\ last.rows > 0
    /\ last.nCreated > 0
    /\ \A i \in DOMAIN reg :
          /\ reg[i].SeriesInstanceUID = reg[1].SeriesInstanceUID
          /\ reg[i].StudyInstanceUID = reg[1].StudyInstanceUID
          /\ reg[i].PatientID = reg[1].PatientID
    /\ ~reg[1].created

\* C11: for a series address under which no row is left that is not
\* removed, _series_attributes resolves a SeriesInstanceUID that no row, no
\* file and no other level of the same resolution carries, the
\* SeriesDescription that is the last label of the address, and the
\* SeriesNumber 1 + the largest SeriesNumber of the rows under the parent
\* study that are not removed, 1 when there is no such row.
NewSeriesAttributes ==
    \A series \in Addr4 :
       Files(reg, series) = <<>> =>
          \A a \in {SeriesAttributes(Mem(reg, disk), series).attr} :
             /\ a.SeriesInstanceUID
                   \notin IdsOfRows(reg) \cup IdsOfDisk(disk)
                           \cup {a.StudyInstanceUID, a.PatientID}
             /\ a.SeriesDescription = series[4]
             /\ a.SeriesNumber
                   = LET kept == {i \in DOMAIN reg :
                                    /\ ~reg[i].removed
                                    /\ Matches(reg[i], SubSeq(series, 1, 3))}
                     IN  IF kept = {} THEN 1
                         ELSE 1 + Max({reg[i].SeriesNumber : i \in kept})

\* A series that was copied to and then deleted: its rows, removed, carry
\* SeriesNumber 2, the rows of the study that are left carry 1, and the
\* address resolves to SeriesNumber 2 again.
NewSeriesAttributesWitness ==
    /\ last.op = "delete"
    /\ Files(reg, <<Root, "P1", "S1", "E2">>) = <<>>
    /\ \E i \in DOMAIN reg :
          /\ reg[i].removed
          /\ Matches(reg[i], <<Root, "P1", "S1", "E2">>)
          /\ reg[i].SeriesNumber = 2
    /\ \E i \in DOMAIN reg :
          /\ ~reg[i].removed
          /\ Matches(reg[i], <<Root, "P1", "S1">>)
          /\ reg[i].SeriesNumber = 1
    /\ SeriesAttributes(Mem(reg, disk), <<Root, "P1", "S1", "E2">>)
          .attr.SeriesNumber = 2

---------------------------------------------------------------------------
(* write_volume() *)

\* C12: every file that a write_volume() that returns has written, for a
\* volume of 3 dimensions or of more, has a row with created = TRUE and
\* removed = FALSE when the call returns.
WrittenFilesRegistered ==
    [][last'.op = "write_volume" /\ last'.ok =>
          \A p \in DOMAIN disk' \ DOMAIN disk :
             \E i \in DOMAIN reg' :
                /\ reg'[i].path = p
                /\ reg'[i].created
                /\ ~reg'[i].removed]_vars

\* C13: the files that a write_volume() that returns has written carry the
\* InstanceNumbers n + 1 .. n + k, k the number of files written and n the
\* largest InstanceNumber of the rows of their series that are not removed
\* (0 when there is none), each number once, for a volume of 3 dimensions
\* and of more alike; the rows appended carry them in increasing order.
WriteVolumeNumbers ==
    [][last'.op = "write_volume" /\ last'.ok =>
          /\ \A p \in DOMAIN disk' \ DOMAIN disk :
                {disk'[q].InstanceNumber : q \in DOMAIN disk' \ DOMAIN disk}
                   = LET kept == {i \in DOMAIN reg :
                                    /\ ~reg[i].removed
                                    /\ reg[i].SeriesInstanceUID
                                          = disk'[p].SeriesInstanceUID}
                         n == IF kept = {} THEN 0
                              ELSE Max({reg[i].InstanceNumber : i \in kept})
                     IN  (n + 1)..(n + last'.files)
          /\ \A i \in DOMAIN reg' : \A j \in DOMAIN reg' :
                Len(reg) < i /\ i < j =>
                   reg'[j].InstanceNumber = reg'[i].InstanceNumber + j - i]_vars

\* A write_volume() of a volume of more than 3 dimensions to a series that
\* had instances 1 and 2: it wrote two files, numbered 3 and 4, that have
\* no row.
WriteVolumeNumbersWitness ==
    /\ last.op = "write_volume"
    /\ last.ok
    /\ last.files = 2
    /\ last.rows = 0
    /\ {disk[p].InstanceNumber : p \in DOMAIN disk \ Paths(reg)} = {3, 4}
    /\ \A p \in DOMAIN disk \ Paths(reg) :
          disk[p].SeriesInstanceUID = reg[1].SeriesInstanceUID

---------------------------------------------------------------------------
(* copy() and move() when a write fails *)

\* C14: after a move() between addresses of equal depth that has written a
\* file, every row under the source address is marked removed, whether the
\* copy ran to its end or a write failed partway.
MoveAlwaysDeletes ==
    [][\A f \in Addr2 \cup Addr3 \cup Addr4 : \A t \in Addrs :
       \A k \in 0..MaxRoom :
          Len(f) = Len(t) /\ MoveOnFull(f, t, k) /\ last'.files > 0 =>
             \A i \in DOMAIN reg' :
                Matches(reg'[i], f) => reg'[i].removed]_vars

\* C15: after a copy(), failed partway or not, every file it has written
\* has a row with created = TRUE.
CopiedFilesRegistered ==
    [][last'.op = "copy" =>
          \A p \in DOMAIN disk' \ DOMAIN disk :
             \E i \in DOMAIN reg' :
                reg'[i].path = p /\ reg'[i].created]_vars

---------------------------------------------------------------------------
(* DataBaseDicom(path) and read() *)

\* C16: DataBaseDicom(path) on a folder whose register file is there and
\* does not load returns without an exception, leaves no register file, and
\* leaves every row of a scanned file with created = FALSE and
\* removed = FALSE.
CorruptSnapshotRecovered ==
    [][pkl = "corrupt" /\ last'.op = "recover" =>
          /\ last'.ok
          /\ pkl' = "none"
          /\ \A i \in DOMAIN reg' :
                reg'[i].path \in DOMAIN disk =>
                   ~reg'[i].created /\ ~reg'[i].removed]_vars

\* C20: after a rebuild, a scanned file whose class is not the class of the
\* first file of its series has no row any more, is deleted, and a row of
\* another series of the same study has a file of its class; the rows of
\* one series that are left have files of one class.
SplitLeavesOneClass ==
    [][last'.op \in {"rebuild", "recover"} /\ last'.ok =>
          /\ \A p \in DOMAIN disk : \A q \in DOMAIN disk :
                /\ disk[q].SeriesInstanceUID = disk[p].SeriesInstanceUID
                /\ \A o \in DOMAIN disk :
                      disk[o].SeriesInstanceUID = disk[p].SeriesInstanceUID
                         => q <= o
                /\ disk[p].SOPClassUID # disk[q].SOPClassUID
                =>
                /\ p \notin Paths(reg')
                /\ p \notin DOMAIN disk'
                /\ \E i \in DOMAIN reg' :
                      /\ reg'[i].StudyInstanceUID = disk[p].StudyInstanceUID
                      /\ reg'[i].SeriesInstanceUID # disk[p].SeriesInstanceUID
                      /\ reg'[i].path \in DOMAIN disk'
                      /\ disk'[reg'[i].path].SOPClassUID = disk[p].SOPClassUID
          /\ \A i \in DOMAIN reg' : \A j \in DOMAIN reg' :
                /\ reg'[i].SeriesInstanceUID = reg'[j].SeriesInstanceUID
                /\ reg'[i].path \in DOMAIN disk'
                /\ reg'[j].path \in DOMAIN disk'
                => disk'[reg'[i].path].SOPClassUID
                      = disk'[reg'[j].path].SOPClassUID]_vars

---------------------------------------------------------------------------
(* volume() *)

\* C17: when volume() is given a number of slices that is not the number
\* of cells of the grid of the distinct values of each axis, it raises the
\* incomplete-grid error and returns no volume.
IncompleteGridFails ==
    built.stage # "none"
    /\ Len(given) # Cardinality({given[i][1] : i \in DOMAIN given})
                    * Cardinality({given[i][2] : i \in DOMAIN given})
    => /\ built.stage = "volume"
       /\ ~built.ok
       /\ built.error = "IncompleteGrid"

\* volume() has raised the incomplete-grid error on the three slices
\* (0,0), (1,0), (0,1) of a grid of 2 x 2.
IncompleteGridFailsWitness ==
    /\ given = << <<0, 0>>, <<1, 0>>, <<0, 1>> >>
    /\ built.stage = "volume"
    /\ built.error = "IncompleteGrid"

\* C18, as stated: when the locations of the slices at some non-spatial
\* coordinate are not those of the slices at the first one, volume() raises
\* the geometry-inconsistency error.
SpatialMismatchIsGeometryError ==
    built.stage # "none"
    /\ (\E s \in DOMAIN given : \E t \in DOMAIN given :
          /\ \A u \in DOMAIN given : given[t][2] <= given[u][2]
          /\ {given[u][1] : u \in {w \in DOMAIN given : given[w][2] = given[s][2]}}
             # {given[u][1] : u \in {w \in DOMAIN given : given[w][2] = given[t][2]}})
    => ~built.ok /\ built.error = "GeometryInconsistency"

\* C18, amended: volume() raises the geometry-inconsistency error exactly
\* when meshvals has placed the slices and, at some index along the spatial
\* axis, a slice has another non-spatial coordinate than the slice of the
\* same column at the first index.  When the locations of the slices at
\* some non-spatial coordinate are not those at the first one and no two
\* slices have the same coordinates, it raises the incomplete-grid error;
\* when the locations are the same at every non-spatial coordinate it does
\* not raise the geometry-inconsistency error.
GeometryCheck ==
    /\ \A mesh \in MeshVals(given) :
          VolumeOf(given, mesh).error = "GeometryInconsistency"
          <=> /\ mesh.ok
              /\ \E i \in 1..mesh.shape[1] : \E j \in 1..mesh.shape[2] :
                    given[mesh.inds[Flat(mesh.shape, i, j)]][2]
                       # given[mesh.inds[Flat(mesh.shape, 1, j)]][2]
    /\ built.stage # "none" =>
          IF \E s \in DOMAIN given : \E t \in DOMAIN given :
                /\ \A u \in DOMAIN given : given[t][2] <= given[u][2]
                /\ {given[u][1] :
                      u \in {w \in DOMAIN given : given[w][2] = given[s][2]}}
                   # {given[u][1] :
                        u \in {w \in DOMAIN given : given[w][2] = given[t][2]}}
          THEN (\A s \in DOMAIN given : \A t \in DOMAIN given :
                   given[s] = given[t] => s = t)
               => ~built.ok /\ built.error = "IncompleteGrid"
          ELSE built.error # "GeometryInconsistency"

\* volume() has raised the incomplete-grid error on the four slices (0,0),
\* (1,0), (0,1), (2,1): the locations at extra = 1 are not those at
\* extra = 0.
GeometryCheckWitness ==
    /\ given = << <<0, 0>>, <<1, 0>>, <<0, 1>>, <<2, 1>> >>
    /\ built.stage = "volume"
    /\ ~built.ok
    /\ built.error = "IncompleteGrid"

\* C19: when the coordinates of the slices are those of the cells of a
\* grid, each once, in whatever order the slices are given, volume()
\* returns a volume, and write_volume() of that volume writes as many
\* slices, whose coordinates are those of the slices given.
MeshRoundTrip ==
    /\ Len(given) = Cardinality({given[i] : i \in DOMAIN given})
    /\ {given[i] : i \in DOMAIN given}
          = {given[i][1] : i \in DOMAIN given}
            \X {given[i][2] : i \in DOMAIN given}
    => /\ built.stage = "volume" => built.ok
       /\ built.stage = "written" =>
             /\ Len(built.written) = Len(given)
             /\ {built.written[c] : c \in DOMAIN built.written}
                   = {given[i] : i \in DOMAIN given}

\* The four slices of a grid of 2 x 2, given in an order that is not the
\* order of the grid, assembled and written back.
MeshRoundTripWitness ==
    /\ given = << <<1, 1>>, <<0, 0>>, <<1, 0>>, <<0, 1>> >>
    /\ built.stage = "written"
    /\ Len(built.written) = 4

---------------------------------------------------------------------------
(* The normalization passes of read() *)

\* C21: every file that the split of a rebuild has written is the copy of
\* a scanned file that the split has deleted: it has the class, the patient
\* and the study of that file, and the SeriesDescription of that file
\* followed by " [k]", k the number of classes that appear in the series
\* before its class.
SplitNamesSiblings ==
    [][last'.op \in {"rebuild", "recover"} /\ last'.ok =>
          \A p \in DOMAIN disk' \ DOMAIN disk :
             \E q \in DOMAIN disk \ DOMAIN disk' :
                /\ disk'[p].SOPClassUID = disk[q].SOPClassUID
                /\ disk'[p].PatientID = disk[q].PatientID
                /\ disk'[p].StudyInstanceUID = disk[q].StudyInstanceUID
                /\ disk'[p].SeriesDescription =
                      disk[q].SeriesDescription \o " [" \o
                      ToString(Cardinality(
                         {disk[o].SOPClassUID : o \in
                            {n \in DOMAIN disk :
                               /\ disk[n].SeriesInstanceUID
                                     = disk[q].SeriesInstanceUID
                               /\ \A b \in DOMAIN disk :
                                     (/\ disk[b].SeriesInstanceUID
                                            = disk[q].SeriesInstanceUID
                                      /\ disk[b].SOPClassUID
                                            = disk[q].SOPClassUID)
                                     => n < b}}))
                      \o "]"]_vars

\* C22: DataBaseDicom(path) that rebuilds a folder with a multiframe file
\* returns, and leaves no row of a multiframe file: the file is deleted and
\* rows of new single-frame files are in the register, or the row is
\* dropped without replacement.
MultiframePassCompletes ==
    [][/\ last'.op \in {"rebuild", "recover"}
       /\ \E p \in DOMAIN disk : disk[p].NumberOfFrames # NoFrames
       => /\ last'.ok
          /\ \A p \in DOMAIN disk :
                disk[p].NumberOfFrames # NoFrames => p \notin Paths(reg')]_vars

\* C25: DataBaseDicom(path) that returns, by loading the register file or
\* by read(), leaves no row with created = TRUE and no row with
\* removed = TRUE; a restore() called next drops no row, changes no flag
\* and deletes no file.
OpenIsLoaded ==
    [][last'.op \in {"open", "rebuild", "recover"} /\ last'.ok =>
          /\ \A i \in DOMAIN reg' : ~reg'[i].created /\ ~reg'[i].removed
          /\ RestoreRegister(reg') = reg'
          /\ RestoreFolder(reg', disk') = disk']_vars

\* C26: every row of the register has its file in the folder, in every
\* state; a step that deletes the file of a row drops the row.
NoDanglingRecords ==
    /\ [](\A i \in DOMAIN reg : reg[i].path \in DOMAIN disk)
    /\ [][\A p \in DOMAIN disk \ DOMAIN disk' :
             p \in Paths(reg) => p \notin Paths(reg')]_vars

---------------------------------------------------------------------------
(* close() and restore() one after the other *)

\* C29: from every state, close() followed by close() or by restore()
\* leaves the register, with its flags, and the folder that the first
\* close() leaves, and restore() followed by restore() or by close() those
\* that the first restore() leaves; a close() or restore() that follows a
\* close() or restore() changes no row, no file and not the snapshot.
TerminalsAbsorb ==
    /\ [](/\ CloseRegister(CloseRegister(reg)) = CloseRegister(reg)
          /\ RestoreRegister(CloseRegister(reg)) = CloseRegister(reg)
          /\ RestoreRegister(RestoreRegister(reg)) = RestoreRegister(reg)
          /\ CloseRegister(RestoreRegister(reg)) = RestoreRegister(reg)
          /\ CloseFolder(CloseRegister(reg), CloseFolder(reg, disk))
                = CloseFolder(reg, disk)
          /\ RestoreFolder(CloseRegister(reg), CloseFolder(reg, disk))
                = CloseFolder(reg, disk)
          /\ RestoreFolder(RestoreRegister(reg), RestoreFolder(reg, disk))
                = RestoreFolder(reg, disk)
          /\ CloseFolder(RestoreRegister(reg), RestoreFolder(reg, disk))
                = RestoreFolder(reg, disk))
    /\ [][/\ last.op \in {"close", "restore"}
          /\ last'.op \in {"close", "restore"}
          => reg' = reg /\ disk' = disk /\ snap' = snap]_vars

\* A restore() that found nothing staged, on a register with rows that a
\* close() has committed and rows and files that a delete() followed by
\* that close() has taken away.
TerminalsAbsorbWitness ==
    /\ last.op = "restore"
    /\ last.nCreated = 0 /\ last.nRemoved = 0 /\ last.nBoth = 0
    /\ last.appended = 0 /\ ~last.deleted
    /\ calls = 2
    /\ snap = reg
    /\ \E i \in DOMAIN reg : reg[i].path \notin {5, 7, 9}
    /\ 5 \notin DOMAIN disk

---------------------------------------------------------------------------
(* Rows staged for removal and the queries *)

\* What the queries return and the largest numbers, on the state: the
\* files and the keys under no address hold the path of a removed row; the
\* patients, the studies and the series are those of the rows that are not
\* removed; the largest InstanceNumber of a series and the largest
\* SeriesNumber of a study are those of their rows that are not removed.
RemovedNotRead ==
    /\ \A i \in DOMAIN reg : \A e \in Addrs :
          reg[i].removed =>
             /\ reg[i].path \notin SeqToSet(Files(reg, e))
             /\ reg[i].path \notin SeqToSet(Index(reg, e))
    /\ SeqToSet(Patients(reg)) =
          {<<Root, reg[i].PatientName>> :
             i \in {j \in DOMAIN reg : ~reg[j].removed}}
    /\ SeqToSet(AllStudies(reg)) =
          {<<Root, reg[i].PatientName, reg[i].StudyDescription>> :
             i \in {j \in DOMAIN reg : ~reg[j].removed}}
    /\ SeqToSet(AllSeries(reg)) =
          {<<Root, reg[i].PatientName, reg[i].StudyDescription,
             reg[i].SeriesDescription>> :
             i \in {j \in DOMAIN reg : ~reg[j].removed}}
    /\ \A i \in DOMAIN reg :
          /\ MaxInstanceNumber(reg, reg[i].SeriesInstanceUID) =
                Max({0} \cup {reg[k].InstanceNumber : k \in
                       {j \in DOMAIN reg :
                          /\ ~reg[j].removed
                          /\ reg[j].SeriesInstanceUID
                                = reg[i].SeriesInstanceUID}})
          /\ MaxSeriesNumber(reg, reg[i].StudyInstanceUID) =
                Max({0} \cup {reg[k].SeriesNumber : k \in
                       {j \in DOMAIN reg :
                          /\ ~reg[j].removed
                          /\ reg[j].StudyInstanceUID
                                = reg[i].StudyInstanceUID}})

\* C24, as stated: no query returns a removed row and no largest number
\* counts it, in every state; restore() leaves every row that was removed
\* in the register, returned by the queries again.
RemovedExcludedUntilRestore ==
    /\ []RemovedNotRead
    /\ [][last'.op = "restore" =>
             \A i \in DOMAIN reg :
                reg[i].removed =>
                   reg[i].path \in SeqToSet(Files(reg', <<Root>>))]_vars

\* C24, amended: no query returns a removed row and no largest number
\* counts it, in every state; restore() leaves every row that was removed
\* and not created since the last saved point in the register, returned by
\* the queries again, and drops every row that was removed and created
\* since.
RemovedExcluded ==
    /\ []RemovedNotRead
    /\ [][last'.op = "restore" =>
             \A i \in DOMAIN reg :
                reg[i].removed =>
                   IF reg[i].created
                   THEN reg[i].path \notin Paths(reg')
                   ELSE /\ reg[i].path \in SeqToSet(Files(reg', <<Root>>))
                        /\ <<Root, reg[i].PatientName, reg[i].StudyDescription,
                             reg[i].SeriesDescription>>
                              \in SeqToSet(AllSeries(reg'))]_vars

\* A restore() after a copy() and a delete() of the whole folder: it found
\* rows removed only and rows created and removed, and the files listed
\* after it are those of all the rows it left.
RemovedExcludedWitness ==
    /\ last.op = "restore"
    /\ last.deleted
    /\ last.nRemoved > 0
    /\ last.nBoth > 0
    /\ last.nCreated = 0
    /\ Len(Files(reg, <<Root>>)) = Len(reg)
    /\ reg # <<>>

---------------------------------------------------------------------------
(* copy() of a study *)

\* C27: copy(from, to) of a study of m series to a study address that has
\* no row returns and appends one row for each file of the source; the rows
\* appended lie under the destination address, are created, carry one
\* StudyInstanceUID, which no row had before, and one PatientID, and carry
\* m SeriesInstanceUIDs, which no row had before, with the SeriesNumbers
\* 1..m, one number for each SeriesInstanceUID.
CopyStudyOneStudy ==
    [][\A f \in Addr3, t \in Addr3 :
          (/\ last'.op = "copy"
           /\ Index(reg, t) = <<>>
           /\ CopyLarge(f, t))
          => /\ last'.ok
             /\ Len(reg') = Len(reg) + Len(Files(reg, f))
             /\ SubSeq(reg', 1, Len(reg)) = reg
             /\ \A i \in (Len(reg) + 1)..Len(reg') :
                   /\ reg'[i].created /\ ~reg'[i].removed
                   /\ Matches(reg'[i], t)
                   /\ reg'[i].StudyInstanceUID \notin IdsOfRows(reg)
                   /\ reg'[i].SeriesInstanceUID \notin IdsOfRows(reg)
                   /\ reg'[i].StudyInstanceUID
                         = reg'[Len(reg) + 1].StudyInstanceUID
                   /\ reg'[i].PatientID = reg'[Len(reg) + 1].PatientID
                   /\ \A j \in (Len(reg) + 1)..Len(reg') :
                         reg'[i].SeriesInstanceUID = reg'[j].SeriesInstanceUID
                         <=> reg'[i].SeriesNumber = reg'[j].SeriesNumber
             /\ Cardinality({reg'[i].SeriesInstanceUID :
                               i \in (Len(reg) + 1)..Len(reg')})
                   = Len(Series(reg, f))
             /\ {reg'[i].SeriesNumber : i \in (Len(reg) + 1)..Len(reg')}
                   = 1..Len(Series(reg, f))]_vars

\* A copy() of the study of two series of two instances each to a study
\* address that had no row: four rows of one new study and two new series.
CopyStudyOneStudyWitness ==
    /\ last.op = "copy"
    /\ last.ok
    /\ last.rows = 4
    /\ Len(Series(reg, <<Root, "P1", "S2">>)) = 2
    /\ Len(Index(reg, <<Root, "P1", "S2">>)) = 4
    /\ \A i \in DOMAIN reg :
          Matches(reg[i], <<Root, "P1", "S2">>) => reg[i].created
    /\ {reg[i].SeriesNumber : i \in {j \in DOMAIN reg :
           Matches(reg[j], <<Root, "P1", "S2">>)}} = {1, 2}

---------------------------------------------------------------------------
(* Two objects opened on the one folder *)

\* A to_pickle that keeps the rows of the file that the register lacks.
ToPickle_Merges(r, s) ==
    LET Lacking(row) == row.path \notin Paths(r)
    IN  r \o SelectSeq(s, Lacking)

\* self.register.to_pickle(file): the register file that a register r
\* written over the register file s leaves.
ToPickle(r, s) == r

\* self.register of object s.
RegisterOf(s) == IF s = 1 THEN reg ELSE peer

\* A call of object s starts: new_uid() returns no identifier that the
\* other object holds.
MemOf(s) ==
    [Mem(RegisterOf(s), disk) EXCEPT
        !.alloc = IdsOfRows(reg) \cup IdsOfRows(peer)]

\* Object s is left with the register r.
Holds(s, r) ==
    IF s = 1 THEN reg' = r /\ UNCHANGED peer ELSE peer' = r /\ UNCHANGED reg

\* Two objects are constructed on a folder whose register file loads,
\* before either has made a call.
InitTwo ==
    /\ reg \in InitCatalogs
    /\ disk = FolderOf(reg)
    /\ snap = reg
    /\ pkl = "saved"
    /\ last = [op |-> "open", ok |-> TRUE, rows |-> 0, files |-> 0, flags |-> 0,
               nCreated |-> 0, nRemoved |-> 0, nBoth |-> 0,
               appended |-> 0, deleted |-> FALSE]
    /\ savedReg = reg
    /\ savedDisk = disk
    /\ sess = NoSession
    /\ calls = 0
    /\ given = <<>>
    /\ built = NoVolume
    /\ peer = reg
    /\ commits = [NoCommits EXCEPT !.loaded = [s \in Sessions |-> reg]]
    /\ dest = NoFolder

\* DataBaseDicom(path) again, in place of object s: the register file is
\* loaded.
OpenBy(s) ==
    /\ Holds(s, snap)
    /\ last' = [last EXCEPT !.op = "open", !.ok = TRUE]
    /\ commits' = [commits EXCEPT !.loaded[s] = snap, !.added[s] = {}]
    /\ UNCHANGED <<disk, snap, pkl, savedReg, savedDisk, sess, calls, given,
                   built, dest>>

\* copy(from_entity, to_entity) of object s.
CopyBy(s, from_entity, to_entity) ==
    LET m == CopyEntity(MemOf(s), from_entity, to_entity)
    IN  /\ calls < MaxCalls
        /\ Within(m, MaxFiles)
        /\ Holds(s, m.reg)
        /\ disk' = m.disk
        /\ calls' = calls + 1
        /\ last' = [last EXCEPT !.op = "copy", !.ok = m.ok]
        /\ UNCHANGED <<snap, pkl, savedReg, savedDisk, sess, given, built,
                       commits, dest>>

\* close() of object s.  The history keeps the rows that the object has
\* created and committed since it was constructed and has not removed.
CloseBy(s) ==
    /\ Holds(s, CloseRegister(RegisterOf(s)))
    /\ disk' = CloseFolder(RegisterOf(s), disk)
    /\ snap' = ToPickle(CloseRegister(RegisterOf(s)), snap)
    /\ pkl' = "saved"
    /\ last' = [last EXCEPT !.op = "close", !.ok = TRUE]
    /\ commits' =
          [commits EXCEPT
              !.added[s] =
                 (@ \cup {RegisterOf(s)[i].path : i \in
                            {j \in DOMAIN RegisterOf(s) :
                                RegisterOf(s)[j].created}})
                 \cap Paths(CloseRegister(RegisterOf(s))),
              !.writer = s]
    /\ UNCHANGED <<savedReg, savedDisk, sess, calls, given, built, dest>>

NextTwo ==
    \/ \E s \in Sessions : OpenBy(s)
    \/ \E s \in Sessions, f \in Addr4, t \in Addr4 : CopyBy(s, f, t)
    \/ \E s \in Sessions : CloseBy(s)

SpecTwo == InitTwo /\ [][NextTwo]_vars

\* C23: when the two objects have loaded the same register file and the
\* one that wrote the register file last is not the one that has created
\* and committed rows, the register file holds none of those rows, and the
\* files of those rows are in the folder.
LostUpdates ==
    \A s \in Sessions, o \in Sessions :
       (/\ s # o
        /\ commits.writer = s
        /\ commits.loaded[s] = commits.loaded[o]
        /\ commits.added[o] # {})
       => \A p \in commits.added[o] :
             p \notin Paths(snap) /\ p \in DOMAIN disk

\* Both objects loaded the same register file, each copied a series and
\* closed, the second object last: the register file holds the row that
\* the second object created and not the row that the first created, whose
\* file is in the folder.
LostUpdatesWitness ==
    /\ commits.writer = 2
    /\ commits.loaded[1] = commits.loaded[2]
    /\ commits.added[1] # {}
    /\ commits.added[2] # {}
    /\ commits.added[2] \subseteq Paths(snap)
    /\ commits.added[1] \cap Paths(snap) = {}
    /\ commits.added[1] \subseteq DOMAIN disk
    /\ last.op = "close"

---------------------------------------------------------------------------
(* copy() to a second folder *)

\* The path of the second folder.
Far == "Q"

\* The addresses in the second folder that copy() is given.
FarAddrs ==
    {<<Far, "P1">>, <<Far, "P1", "S1">>,
     <<Far, "P1", "S1", "E1">>, <<Far, "P1", "S1", "E2">>}

\* The register of a second folder that holds one series of one instance.
FarCatalog ==
    << Row(25, Dataset(21, "P1", 22, "S1", 23, "E1", 1, 1, 24), FALSE, FALSE) >>

\* The second folder before the first call: it holds nothing, or it holds
\* one instance file and the register file that a close() has written.
FarFolders ==
    {NoFolder,
     [disk |-> FolderOf(FarCatalog), snap |-> FarCatalog, pkl |-> "saved"]}

InitAcross ==
    /\ reg \in InitCatalogs
    /\ disk = FolderOf(reg)
    /\ snap = reg
    /\ pkl = "saved"
    /\ last = [op |-> "open", ok |-> TRUE, rows |-> 0, files |-> 0, flags |-> 0,
               nCreated |-> 0, nRemoved |-> 0, nBoth |-> 0,
               appended |-> 0, deleted |-> FALSE]
    /\ savedReg = reg
    /\ savedDisk = disk
    /\ sess = NoSession
    /\ calls = 0
    /\ given = <<>>
    /\ built = NoVolume
    /\ peer = <<>>
    /\ commits = NoCommits
    /\ dest \in FarFolders

\* copy(from_entity, to_entity) with to_entity in the second folder.
CopyAcross(from_entity, to_entity) ==
    LET m == CopyEntity(MemAcross(reg, disk, dest), from_entity, to_entity)
    IN  /\ calls < MaxCalls
        /\ Cardinality(DOMAIN m.far.disk) <= MaxFiles
        /\ calls' = calls + 1
        /\ reg' = m.reg
        /\ disk' = m.disk
        /\ dest' = m.far
        /\ last' = Outcome("copy", m.ok, m.reg, m.disk)
        /\ sess' = [sess EXCEPT !.appended = @ + Len(m.reg) - Len(reg)]
        /\ UNCHANGED <<snap, pkl, savedReg, savedDisk, given, built, peer,
                       commits>>

NextAcross ==
    \/ \E f \in Addrs, t \in FarAddrs : CopyAcross(f, t)
    \/ \E e \in Addrs : Delete(e)
    \/ Close
    \/ Restore

SpecAcross == InitAcross /\ [][NextAcross]_vars

\* C28: copy(from, to) of a series to a series address in the second
\* folder returns and leaves the register, the folder and the register file
\* of the first folder as they are; it changes and deletes no file that the
\* second folder had and writes one file there for each file of the source;
\* the register file of the second folder is there when it returns and has
\* a row with created = FALSE and removed = FALSE for each file written,
\* under the destination address; restore() leaves the second folder and
\* its register file as they are.
CrossCopyCommitted ==
    [][/\ \A f \in Addr4, t \in FarAddrs :
             (/\ Len(t) = 4
              /\ last'.op = "copy"
              /\ CopyAcross(f, t))
             => /\ last'.ok
                /\ reg' = reg /\ disk' = disk /\ snap' = snap
                /\ dest'.pkl = "saved"
                /\ Cardinality(DOMAIN dest'.disk \ DOMAIN dest.disk)
                      = Len(Files(reg, f))
                /\ \A p \in DOMAIN dest.disk :
                      p \in DOMAIN dest'.disk /\ dest'.disk[p] = dest.disk[p]
                /\ \A p \in DOMAIN dest'.disk \ DOMAIN dest.disk :
                      \E i \in DOMAIN dest'.snap :
                         /\ dest'.snap[i].path = p
                         /\ ~dest'.snap[i].created
                         /\ ~dest'.snap[i].removed
                         /\ Matches(dest'.snap[i], t)
                         /\ DatasetOf(dest'.snap[i]) = dest'.disk[p]
       /\ last'.op = "restore" => dest' = dest]_vars

\* A restore() in the first folder, which had rows staged for removal,
\* after a copy() of a series of two instances to the second folder: the
\* register file of the second folder has the rows of its three files.
CrossCopyCommittedWitness ==
    /\ last.op = "restore"
    /\ last.nRemoved > 0
    /\ dest.pkl = "saved"
    /\ Len(dest.snap) = 3
    /\ Paths(dest.snap) = DOMAIN dest.disk
    /\ \A i \in DOMAIN dest.snap : ~dest.snap[i].created
    /\ Len(reg) = 2

====
